---- MODULE Spec2Model ----
(***************************************************************************)
(* Model of hyni's schema-driven context engine (general_context): one     *)
(* context object, its construction from a schema, its setters/appenders,  *)
(* build_request and the narrower resets.                                  *)
(*                                                                         *)
(* JSON values (nlohmann::json) are tagged records:                        *)
(*   null, string, integer, float (value in tenths), boolean,              *)
(*   object (a function from keys to JSON), array (a sequence of JSON).    *)
(***************************************************************************)
EXTENDS Integers, Sequences, FiniteSets, TLC

\* ------------------------------------------------------------------ JSON
Null == [t |-> "null"]
Str(s) == [t |-> "string", s |-> s]
JInt(n) == [t |-> "integer", n |-> n]
Flt(x) == [t |-> "float", x |-> x]
Bool(b) == [t |-> "boolean", b |-> b]
Obj(f) == [t |-> "object", o |-> f]
Arr(a) == [t |-> "array", a |-> a]

EmptyObj == Obj(<<>>)

is_null(j) == j.t = "null"
is_string(j) == j.t = "string"
is_boolean(j) == j.t = "boolean"
is_object(j) == j.t = "object"
is_array(j) == j.t = "array"
is_number_integer(j) == j.t = "integer"
is_number(j) == j.t \in {"integer", "float"}

\* json::contains(key): false on anything that is not an object
Contains(j, k) == is_object(j) /\ k \in DOMAIN j.o

\* const lookup of a key known to be present
At(j, k) == j.o[k]

\* json::operator[](key) read on the non-const m_schema: the value of a present
\* key, null for a key it has to insert
Index(j, k) == IF Contains(j, k) THEN j.o[k] ELSE Null

\* json::operator[](key) = value on an object or on null (null becomes an object)
Put(j, k, v) ==
    IF is_object(j)
    THEN Obj([x \in DOMAIN j.o \cup {k} |-> IF x = k THEN v ELSE j.o[x]])
    ELSE Obj([x \in {k} |-> v])

\* numeric value in tenths, as get<double>() sees it
NumVal(j) == IF j.t = "integer" THEN 10 * j.n ELSE j.x

\* json operator== : numbers compare by value, everything else structurally
JsonEq(a, b) == IF is_number(a) /\ is_number(b) THEN NumVal(a) = NumVal(b) ELSE a = b

\* a remove_nulls_recursive that has no array branch
RECURSIVE remove_nulls_objects_only(_)
remove_nulls_objects_only(j) ==
    IF is_object(j)
    THEN Obj([k \in {x \in DOMAIN j.o : ~is_null(j.o[x])} |->
                 remove_nulls_objects_only(j.o[k])])
    ELSE j

RECURSIVE remove_nulls_recursive(_)
remove_nulls_recursive(j) ==
    IF is_object(j)
    THEN Obj([k \in {x \in DOMAIN j.o : ~is_null(j.o[x])} |->
                 remove_nulls_recursive(j.o[k])])
    ELSE IF is_array(j)
         THEN Arr([i \in DOMAIN j.a |-> remove_nulls_recursive(j.a[i])])
         ELSE j

\* a null-valued object field somewhere inside j
RECURSIVE HasNullField(_)
HasNullField(j) ==
    IF is_object(j)
    THEN \E k \in DOMAIN j.o : is_null(j.o[k]) \/ HasNullField(j.o[k])
    ELSE IF is_array(j)
         THEN \E i \in DOMAIN j.a : HasNullField(j.a[i])
         ELSE FALSE

\* ------------------------------------------------------------- schemas
MessageFormatPlain ==
    Obj([structure |-> Obj([role |-> Str("<ROLE>"), content |-> Str("<TEXT>")]),
         system_structure |-> Obj([role |-> Str("system"), content |-> Str("<TEXT>")]),
         content_types |-> Obj([text |-> Obj([type |-> Str("text"), text |-> Str("<TEXT>")])])])

MessageFormatBlocks ==
    Obj([structure |-> Obj([role |-> Str("<ROLE>"),
                            content |-> Arr(<<Obj([type |-> Str("text"), text |-> Str("<TEXT>")])>>)]),
         content_types |-> Obj([text |-> Obj([type |-> Str("text")])])])

ResponseFormat ==
    Obj([success |-> Obj([text_path |-> Arr(<<Str("choices"), JInt(0), Str("text")>>)]),
         error |-> Obj([error_path |-> Arr(<<Str("error"), Str("message")>>)])])

ParametersDecl ==
    Obj([temperature |-> Obj([type |-> Str("float"), min |-> Flt(0), max |-> Flt(20)]),
         max_tokens |-> Obj([type |-> Str("integer"), min |-> JInt(1), max |-> JInt(4096)]),
         stream |-> Obj([type |-> Str("boolean")]),
         stop |-> Obj([type |-> Arr(<<Str("string"), Str("array")>>), default |-> Null,
                       maxItems |-> JInt(1),
                       items |-> Obj([type |-> Str("string"), maxLength |-> JInt(2)])])])

\* OpenAI style: `system` is a message role, string content, streaming supported
SchemaChat ==
    Obj([provider |-> Obj([name |-> Str("chat")]),
         api |-> Obj([endpoint |-> Str("https://chat")]),
         authentication |-> Obj([key_placeholder |-> Str("<K>")]),
         headers |-> Obj([required |-> Obj([Authorization |-> Str("Bearer <K>")]),
                          optional |-> Obj([Org |-> Str(""), Beta |-> Str("b1")])]),
         models |-> Obj([available |-> Arr(<<Str("m1"), Str("m2")>>), default |-> Str("m1")]),
         request_template |-> Obj([model |-> Str("m1"), messages |-> Arr(<<>>),
                                   temperature |-> Flt(7), stop |-> Null,
                                   response_format |-> Obj([type |-> Str("text"), schema |-> Null])]),
         message_format |-> MessageFormatPlain,
         response_format |-> ResponseFormat,
         parameters |-> ParametersDecl,
         message_roles |-> Arr(<<Str("system"), Str("user"), Str("assistant")>>),
         system_message |-> Obj([supported |-> Bool(TRUE)]),
         features |-> Obj([streaming |-> Bool(TRUE)])])

\* Claude style: `system` is not a message role, block content, max_tokens in the template
SchemaBlocks ==
    Obj([provider |-> Obj([name |-> Str("blocks")]),
         api |-> Obj([endpoint |-> Str("https://blocks")]),
         authentication |-> Obj([key_placeholder |-> Str("<K>")]),
         headers |-> Obj([required |-> Obj([ApiKey |-> Str("<K>"), Version |-> Str("v1")])]),
         models |-> Obj([available |-> Arr(<<Str("m1"), Str("m2")>>), default |-> Str("m2")]),
         request_template |-> Obj([model |-> Str("m2"), max_tokens |-> JInt(1024),
                                   messages |-> Arr(<<>>), system |-> Null,
                                   tools |-> Arr(<<Obj([name |-> Str("t"), strict |-> Null])>>)]),
         message_format |-> MessageFormatBlocks,
         response_format |-> ResponseFormat,
         parameters |-> ParametersDecl,
         message_roles |-> Arr(<<Str("user"), Str("assistant")>>),
         system_message |-> Obj([supported |-> Bool(TRUE)]),
         features |-> Obj([streaming |-> Bool(TRUE)])])

\* no streaming, no system messages
SchemaBasic ==
    Obj([provider |-> Obj([name |-> Str("basic")]),
         api |-> Obj([endpoint |-> Str("https://basic")]),
         models |-> Obj([available |-> Arr(<<Str("m1")>>)]),
         request_template |-> Obj([messages |-> Arr(<<>>), max_tokens |-> Null]),
         message_format |-> MessageFormatPlain,
         response_format |-> ResponseFormat,
         parameters |-> ParametersDecl,
         message_roles |-> Arr(<<Str("user"), Str("assistant")>>),
         system_message |-> Obj([supported |-> Bool(FALSE)]),
         features |-> Obj([streaming |-> Bool(FALSE)])])

\* only what validate_schema() asks for (plus provider.name, read by the
\* constructor): no features, no models, no message_roles, no parameters
SchemaMinimal ==
    Obj([provider |-> Obj([name |-> Str("minimal")]),
         api |-> Obj([endpoint |-> Str("https://minimal")]),
         request_template |-> Obj([messages |-> Arr(<<>>)]),
         message_format |-> MessageFormatPlain,
         response_format |-> ResponseFormat])

\* a features section without the streaming flag
SchemaNoFlag ==
    Put(Put(SchemaMinimal, "features", Obj([vision |-> Bool(TRUE)])),
        "system_message", Obj([supported |-> Bool(TRUE)]))

ValidSchemas == {SchemaChat, SchemaBlocks, SchemaBasic, SchemaMinimal, SchemaNoFlag}

\* object j without key k / without j[k][k2] / without j[k][k2][k3]
Without(j, k) == Obj([x \in DOMAIN j.o \ {k} |-> j.o[x]])
Without2(j, k, k2) == Put(j, k, Without(At(j, k), k2))
Without3(j, k, k2, k3) == Put(j, k, Without2(At(j, k), k2, k3))

RequiredFields == {"provider", "api", "request_template", "message_format", "response_format"}

\* schemas that lack one thing validate_schema() looks for
BrokenSchemas ==
    {Without(SchemaChat, f) : f \in RequiredFields}
    \cup {Without2(SchemaChat, "api", "endpoint"),
          Without2(SchemaChat, "message_format", "structure"),
          Without2(SchemaChat, "message_format", "content_types"),
          Without2(SchemaChat, "response_format", "success"),
          Without3(SchemaChat, "response_format", "success", "text_path"),
          Put(SchemaBlocks, "api", Str("https://blocks")),
          Without(Without(SchemaBasic, "api"), "provider")}

\* passes validate_schema() but has no provider.name
SchemaNoName == Put(SchemaMinimal, "provider", EmptyObj)

Schemas == ValidSchemas \cup BrokenSchemas \cup {SchemaNoName}

\* --------------------------------------------- general_context: schema
\* a validate_schema() that stops after the top-level fields
validate_schema_top_level(schema) ==
    \A field \in {"provider", "api", "request_template", "message_format",
                  "response_format"} : Contains(schema, field)

\* validate_schema(): TRUE when it returns, FALSE when it throws schema_exception
validate_schema(schema) ==
    /\ \A field \in RequiredFields : Contains(schema, field)
    /\ Contains(At(schema, "api"), "endpoint")
    /\ Contains(At(schema, "message_format"), "structure")
    /\ Contains(At(schema, "message_format"), "content_types")
    /\ Contains(At(schema, "response_format"), "success")
    /\ Contains(At(At(schema, "response_format"), "success"), "text_path")

\* cache_schema_elements() reads provider.name and api.endpoint with
\* get<std::string>(): a json type_error when either is not a string
cache_schema_elements_throws(schema) ==
    \/ ~is_string(Index(Index(schema, "provider"), "name"))
    \/ ~is_string(Index(Index(schema, "api"), "endpoint"))

\* m_valid_roles as cache_schema_elements() fills it
valid_roles_of(schema) ==
    IF Contains(schema, "message_roles")
    THEN {At(schema, "message_roles").a[i].s : i \in DOMAIN At(schema, "message_roles").a}
    ELSE {}

\* m_text_content_format as cache_schema_elements() fills it (null when absent)
text_content_format_of(schema) ==
    IF Contains(Index(Index(schema, "message_format"), "content_types"), "text")
    THEN At(At(At(schema, "message_format"), "content_types"), "text")
    ELSE Null

\* apply_defaults(): the model name after it, given the name before it
apply_defaults(schema, model_name) ==
    IF Contains(schema, "models") /\ Contains(At(schema, "models"), "default")
    THEN At(At(schema, "models"), "default").s
    ELSE model_name

FlagOf(schema, section, flag) ==
    /\ Contains(schema, section)
    /\ Contains(At(schema, section), flag)
    /\ is_boolean(At(At(schema, section), flag))
    /\ At(At(schema, section), flag).b

supports_streaming(schema) == FlagOf(schema, "features", "streaming")
supports_system_messages(schema) == FlagOf(schema, "system_message", "supported")

\* ------------------------------------------- general_context: headers
\* std::string::find(pat, pos) with 1-based positions; 0 stands for npos
Find(str, pat, pos) ==
    LET hits == {i \in pos..(Len(str) - Len(pat) + 1) :
                    SubSeq(str, i, i + Len(pat) - 1) = pat}
    IN IF hits = {} THEN 0 ELSE CHOOSE i \in hits : \A j \in hits : i <= j

\* a replacement of the first occurrence only
ReplaceFirst(str, placeholder, key, pos) ==
    LET i == Find(str, placeholder, pos)
    IN IF i = 0 THEN str
       ELSE SubSeq(str, 1, i - 1) \o key \o SubSeq(str, i + Len(placeholder), Len(str))

\* the replace loop of build_headers(), continuing the search at pos
RECURSIVE ReplaceFrom(_, _, _, _)
ReplaceFrom(str, placeholder, key, pos) ==
    LET i == Find(str, placeholder, pos)
    IN IF i = 0 THEN str
       ELSE ReplaceFrom(SubSeq(str, 1, i - 1) \o key
                          \o SubSeq(str, i + Len(placeholder), Len(str)),
                        placeholder, key, i + Len(key))

HeaderSection(schema, part) ==
    IF Contains(schema, "headers") /\ Contains(At(schema, "headers"), part)
    THEN At(At(schema, "headers"), part).o
    ELSE <<>>

\* build_headers(): the header map (name -> string) for an API key
build_headers(schema, api_key) ==
    LET required == HeaderSection(schema, "required")
        optional == HeaderSection(schema, "optional")
        kept == {k \in DOMAIN optional :
                    is_string(optional[k]) /\ optional[k].s # ""}
        substituted(v) ==
            IF Contains(schema, "authentication")
               /\ Contains(At(schema, "authentication"), "key_placeholder")
            THEN ReplaceFrom(v, At(At(schema, "authentication"), "key_placeholder").s,
                             api_key, 1)
            ELSE v
    IN [k \in DOMAIN required \cup kept |->
           IF k \in kept THEN optional[k].s ELSE substituted(required[k].s)]

\* ------------------------------------------ general_context: messages
None == [has |-> FALSE]
Some(v) == [has |-> TRUE, v |-> v]

\* create_text_content(): the text block of an array-valued content
create_text_content(c, text) == Put(c.m_text_content_format, "text", Str(text))

\* create_message() without media: the role-specific structure when the
\* schema has one, the default structure otherwise
create_message(c, role, content) ==
    LET structure_key == role \o "_structure"
        format == At(c.m_schema, "message_format")
    IN IF Contains(c.m_schema, "message_format") /\ Contains(format, structure_key)
       THEN LET m0 == At(format, structure_key)
                m1 == IF Contains(m0, "role")
                      THEN (IF At(m0, "role") = Str("<ROLE>")
                            THEN Put(m0, "role", Str(role)) ELSE m0)
                      ELSE Put(m0, "role", Str(role))
            IN IF Contains(m1, "content") /\ At(m1, "content") = Str("<TEXT>")
               THEN Put(m1, "content", Str(content))
               ELSE m1
       ELSE LET m1 == Put(c.m_message_structure, "role", Str(role))
            IN IF Contains(m1, "content") /\ is_array(At(m1, "content"))
               THEN Put(m1, "content", Arr(<<create_text_content(c, content)>>))
               ELSE IF Contains(m1, "content")
                    THEN Put(m1, "content", Str(content))
                    ELSE m1

\* a validate_message() that checks the two fields and not the role
validate_message_fields_only(c, message) ==
    Contains(message, "role") /\ Contains(message, "content")

\* validate_message(): TRUE when it returns, FALSE when it throws
validate_message(c, message) ==
    /\ Contains(message, "role")
    /\ Contains(message, "content")
    /\ (c.m_valid_roles = {} \/ At(message, "role").s \in c.m_valid_roles)

\* ---------------------------------------- general_context: parameters
TypeMatches(type_str, value) ==
    \/ type_str = "string" /\ is_string(value)
    \/ type_str = "array" /\ is_array(value)
    \/ type_str = "integer" /\ is_number_integer(value)
    \/ type_str = "float" /\ is_number(value)
    \/ type_str = "boolean" /\ is_boolean(value)
    \/ type_str = "object" /\ is_object(value)

\* a multi-type branch that stops after the type match
MultiTypeOkTypesOnly(def, value) ==
    \E i \in DOMAIN At(def, "type").a : TypeMatches(At(def, "type").a[i].s, value)

\* the multi-type branch of validate_parameter()
MultiTypeOk(def, value) ==
    /\ \E i \in DOMAIN At(def, "type").a : TypeMatches(At(def, "type").a[i].s, value)
    /\ (is_array(value) /\ Contains(def, "maxItems"))
          => Len(value.a) <= At(def, "maxItems").n
    /\ (is_array(value) /\ Contains(def, "items"))
          => LET items_def == At(def, "items")
             IN /\ (Contains(items_def, "type") /\ At(items_def, "type").s = "string")
                      => \A i \in DOMAIN value.a : is_string(value.a[i])
                /\ Contains(items_def, "maxLength")
                      => \A i \in DOMAIN value.a :
                            is_string(value.a[i])
                               => Len(value.a[i].s) <= At(items_def, "maxLength").n

\* a range check that excludes the bounds themselves
RangeOkExclusive(def, value) ==
    /\ (is_number(value) /\ Contains(def, "min")) => NumVal(value) > NumVal(At(def, "min"))
    /\ (is_number(value) /\ Contains(def, "max")) => NumVal(value) < NumVal(At(def, "max"))

\* the range validation for numbers that ends validate_parameter()
RangeOk(def, value) ==
    /\ (is_number(value) /\ Contains(def, "min")) => NumVal(value) >= NumVal(At(def, "min"))
    /\ (is_number(value) /\ Contains(def, "max")) => NumVal(value) <= NumVal(At(def, "max"))

\* the single-type branch of validate_parameter()
SingleTypeOk(def, value) ==
    /\ (is_string(value) /\ Contains(def, "max_length"))
          => Len(value.s) <= At(def, "max_length").n
    /\ Contains(def, "enum")
          => \E i \in DOMAIN At(def, "enum").a : JsonEq(value, At(def, "enum").a[i])
    /\ Contains(def, "type")
          => LET expected_type == At(def, "type").s
             IN /\ expected_type = "integer" => is_number_integer(value)
                /\ expected_type = "float" => is_number(value)
                /\ expected_type = "string" => is_string(value)
                /\ expected_type = "boolean" => is_boolean(value)
                /\ expected_type = "array" => is_array(value)
    /\ RangeOk(def, value)

\* validate_parameter(): TRUE when it returns, FALSE when it throws
validate_parameter(c, key, value) ==
    LET declared == Contains(c.m_schema, "parameters")
                    /\ Contains(At(c.m_schema, "parameters"), key)
        def == At(At(c.m_schema, "parameters"), key)
    IN IF is_null(value)
       THEN declared /\ Contains(def, "default") /\ is_null(At(def, "default"))
       ELSE IF ~declared THEN TRUE
       ELSE IF Contains(def, "type") /\ is_array(At(def, "type"))
            THEN MultiTypeOk(def, value)
            ELSE SingleTypeOk(def, value)

\* --------------------------------------- general_context: build_request
\* json::operator[](key) on a non-const value: a missing key is inserted as
\* null, null itself becomes an object
IndexMut(j, k) == IF Contains(j, k) THEN j ELSE Put(j, k, Null)

\* m_schema["features"]["streaming"].get<bool>() on the non-const m_schema:
\* the flag read, whether get<bool>() throws a json type_error, and m_schema
\* after the two operator[] calls
features_streaming(schema) ==
    LET s1 == IndexMut(schema, "features")
        f1 == IndexMut(At(s1, "features"), "streaming")
        flag == At(f1, "streaming")
    IN [throws |-> ~is_boolean(flag),
        value |-> is_boolean(flag) /\ flag.b,
        m_schema |-> Put(s1, "features", f1)]

\* a build_request() that always takes the insert-at-beginning branch
system_in_roles_always(c) == TRUE

system_in_roles(c) == "system" \in c.m_valid_roles

\* the messages array: the stored messages, with the system message first
\* when `system` is a valid role
messages_array(c) ==
    IF c.m_system_message.has /\ supports_system_messages(c.m_schema) /\ system_in_roles(c)
    THEN <<create_message(c, "system", c.m_system_message.v)>> \o c.m_messages
    ELSE c.m_messages

\* a build_request() that leaves the template's `model` field as it is
place_fields_template_model(c) ==
    LET r0 == c.m_request_template
        r2 == IF c.m_system_message.has /\ supports_system_messages(c.m_schema)
                 /\ ~system_in_roles(c)
              THEN Put(r0, "system", Str(c.m_system_message.v))
              ELSE r0
    IN Put(r2, "messages", Arr(messages_array(c)))

\* the request after the model, the system field and the messages are set
place_fields(c) ==
    LET r0 == c.m_request_template
        r1 == IF c.m_model_name # "" THEN Put(r0, "model", Str(c.m_model_name)) ELSE r0
        r2 == IF c.m_system_message.has /\ supports_system_messages(c.m_schema)
                 /\ ~system_in_roles(c)
              THEN Put(r1, "system", Str(c.m_system_message.v))
              ELSE r1
    IN Put(r2, "messages", Arr(messages_array(c)))

\* every custom parameter overwrites the field of its key
apply_parameters(request, parameters) ==
    Obj([k \in DOMAIN request.o \cup DOMAIN parameters |->
            IF k \in DOMAIN parameters THEN parameters[k] ELSE request.o[k]])

\* config defaults written without the contains() tests
apply_config_defaults_forced(request, config) ==
    LET r1 == IF config.default_max_tokens.has
              THEN Put(request, "max_tokens", JInt(config.default_max_tokens.v))
              ELSE request
    IN IF config.default_temperature.has
       THEN Put(r1, "temperature", Flt(config.default_temperature.v))
       ELSE r1

\* config defaults, only for fields the request does not contain
apply_config_defaults(request, config) ==
    LET r1 == IF config.default_max_tokens.has /\ ~Contains(request, "max_tokens")
              THEN Put(request, "max_tokens", JInt(config.default_max_tokens.v))
              ELSE request
    IN IF config.default_temperature.has /\ ~Contains(r1, "temperature")
       THEN Put(r1, "temperature", Flt(config.default_temperature.v))
       ELSE r1

\* the stream field: untouched when a `stream` parameter is set
resolve_stream(request, parameters, streaming, flag) ==
    IF "stream" \notin DOMAIN parameters
    THEN Put(request, "stream", Bool(streaming /\ flag))
    ELSE request

\* build_request(streaming): whether it throws (json type_error), the request
\* it returns otherwise, and m_schema afterwards
build_request(c, streaming) ==
    LET reads_flag == "stream" \notin DOMAIN c.m_parameters /\ streaming
        look == features_streaming(c.m_schema)
        r4 == apply_config_defaults(apply_parameters(place_fields(c), c.m_parameters),
                                    c.m_config)
    IN [throws |-> reads_flag /\ look.throws,
        request |-> remove_nulls_recursive(
                        resolve_stream(r4, c.m_parameters, streaming,
                                       reads_flag /\ look.value)),
        m_schema |-> IF reads_flag THEN look.m_schema ELSE c.m_schema]

\* ------------------------------------------------------------- inputs
\* mutating calls made on one context object
MaxCalls == 3

\* context_config: enable_validation and the two optional defaults
Config(validation, max_tokens, temperature) ==
    [enable_validation |-> validation,
     default_max_tokens |-> max_tokens,
     default_temperature |-> temperature]

Configs ==
    {Config(TRUE, None, None),
     Config(TRUE, Some(256), Some(3)),
     Config(FALSE, Some(256), None)}

\* what a schema path can lead to: no file, a file that is not JSON, a document
Files ==
    {[kind |-> "missing"], [kind |-> "garbage"]}
    \cup {[kind |-> "json", doc |-> d] : d \in Schemas}

ModelNames == {"m2", "m9"}
SystemTexts == {"S"}
Texts == {"X"}
OtherRoles == {"tool"}
ApiKeys == {"", "k1"}

\* (key, value) arguments of set_parameter
ParamInputs ==
    {<<"temperature", Flt(5)>>, <<"temperature", Flt(25)>>,
     <<"max_tokens", JInt(100)>>, <<"stream", Bool(FALSE)>>, <<"stop", Null>>}

\* arguments of set_parameters
ParamMaps ==
    {[temperature |-> Flt(5), max_tokens |-> Str("many")],
     [max_tokens |-> JInt(100), stream |-> Bool(FALSE)]}

\* the orders in which an unordered_map of these keys can be iterated
Orders(keys) ==
    {o \in [1..Cardinality(keys) -> keys] : \A i, j \in DOMAIN o : o[i] = o[j] => i = j}

\* ------------------------------------------------------------- state
VARIABLES
    alive,                  \* a context object exists
    m_schema, m_request_template, m_config,
    m_valid_roles, m_message_structure, m_text_content_format,
    m_headers, m_model_name, m_system_message, m_messages, m_parameters, m_api_key,
    calls,                  \* mutating calls made on the context so far
    last,                   \* the last call: operation, arguments, outcome
    built,                  \* the last request built since the last mutating call
    rt,                     \* progress of add_user_message; build; clear_user_messages; build
    m_schema_cache,         \* context_factory: schema path -> parsed schema document
    m_cache_hits, m_cache_misses,
    tl_contexts,            \* per thread: provider name -> thread-local context
    pc,                     \* per thread: where its factory call stands
    fcalls,                 \* factory calls started so far
    flast,                  \* the last factory call that returned or threw
    fhist,                  \* lookups made, instances created, instances handed out
    tl_cache,               \* per thread: the thread_cache of provider_context::get()
    other_factory           \* a second context_factory, over a registry of its own

fixed == <<m_schema, m_request_template, m_config,
           m_valid_roles, m_message_structure, m_text_content_format>>
mutable == <<m_headers, m_model_name, m_system_message, m_messages, m_parameters, m_api_key>>
factory == <<m_schema_cache, m_cache_hits, m_cache_misses, tl_contexts, pc, fcalls,
             flast, fhist, tl_cache, other_factory>>
context == <<alive, fixed, mutable, calls, last, built, rt>>
vars == <<context, factory>>

\* the context object, as the member functions see it
Self ==
    [m_schema |-> m_schema, m_request_template |-> m_request_template,
     m_config |-> m_config, m_valid_roles |-> m_valid_roles,
     m_message_structure |-> m_message_structure,
     m_text_content_format |-> m_text_content_format,
     m_headers |-> m_headers, m_model_name |-> m_model_name,
     m_system_message |-> m_system_message, m_messages |-> m_messages,
     m_parameters |-> m_parameters, m_api_key |-> m_api_key]

\* what a validation error must leave untouched
Snapshot ==
    [model |-> m_model_name, system |-> m_system_message, messages |-> m_messages,
     parameters |-> m_parameters, api_key |-> m_api_key, headers |-> m_headers]

NoBuilds == None
Idle == [phase |-> 0]

Call(op, arg, outcome) ==
    [op |-> op, arg |-> arg, outcome |-> outcome,
     pre |-> IF outcome = "ok" THEN None ELSE Some(Snapshot)]

\* the threads that share one context_factory
Threads == {"main", "worker"}

\* a context_factory after construction, no thread inside a call
FreshFactory ==
    /\ m_schema_cache = <<>>
    /\ m_cache_hits = 0 /\ m_cache_misses = 0
    /\ tl_contexts = [t \in Threads |-> <<>>]
    /\ pc = [t \in Threads |-> [at |-> "idle"]]
    /\ fcalls = 0
    /\ flast = [op |-> "none"]
    /\ fhist = [lookups |-> 0, instances |-> 0, sequential |-> TRUE, returned |-> {},
                requested |-> {}, failed |-> FALSE, cleared |-> FALSE, added |-> <<>>]
    /\ tl_cache = [t \in Threads |-> [provider_name |-> "", context |-> None]]
    /\ other_factory = [m_schema_cache |-> <<>>, m_cache_hits |-> 0, m_cache_misses |-> 0]

Init ==
    /\ FreshFactory
    /\ alive = FALSE
    /\ m_schema = Null /\ m_request_template = Null /\ m_config = Config(TRUE, None, None)
    /\ m_valid_roles = {} /\ m_message_structure = Null /\ m_text_content_format = Null
    /\ m_headers = <<>> /\ m_model_name = "" /\ m_system_message = None
    /\ m_messages = <<>> /\ m_parameters = <<>> /\ m_api_key = ""
    /\ last = [op |-> "none", arg |-> Null, outcome |-> "ok", pre |-> None]
    /\ calls = 0
    /\ built = NoBuilds
    /\ rt = Idle

\* ------------------------------------------------------- construction
\* the constructor body after the schema document is in m_schema:
\* validate_schema, cache_schema_elements, apply_defaults, build_headers
Construct(op, arg, doc, config) ==
    LET outcome == IF ~validate_schema(doc) THEN "schema_exception"
                   ELSE IF cache_schema_elements_throws(doc) THEN "type_error"
                   ELSE "ok"
    IN /\ ~alive
       /\ alive' = (outcome = "ok")
       /\ last' = [op |-> op, arg |-> arg, outcome |-> outcome, pre |-> None]
       /\ built' = NoBuilds
       /\ rt' = Idle
       /\ calls' = 0
       /\ IF outcome = "ok"
          THEN /\ m_schema' = doc
               /\ m_config' = config
               /\ m_valid_roles' = valid_roles_of(doc)
               /\ m_request_template' = Index(doc, "request_template")
               /\ m_message_structure' = Index(Index(doc, "message_format"), "structure")
               /\ m_text_content_format' = text_content_format_of(doc)
               /\ m_model_name' = apply_defaults(doc, "")
               /\ m_headers' = build_headers(doc, "")
               /\ m_system_message' = None
               /\ m_messages' = <<>>
               /\ m_parameters' = <<>>
               /\ m_api_key' = ""
          ELSE UNCHANGED <<fixed, mutable>>
       /\ UNCHANGED factory

\* general_context(const std::string& schema_path, config)
ConstructFromPath ==
    \E file \in Files, config \in Configs :
        IF file.kind = "json"
        THEN Construct("general_context(path)", file, file.doc, config)
        ELSE /\ ~alive
             /\ last' = [op |-> "general_context(path)", arg |-> file,
                         outcome |-> "schema_exception", pre |-> None]
             /\ UNCHANGED <<alive, fixed, mutable, calls, built, rt, factory>>

\* general_context(const nlohmann::json& schema, config)
ConstructFromDocument ==
    \E doc \in Schemas, config \in Configs :
        Construct("general_context(json)", [kind |-> "json", doc |-> doc], doc, config)

\* ------------------------------------------------------------ setters
\* a call that throws before it assigns anything
Throws(op, arg, outcome) ==
    /\ calls < MaxCalls
    /\ calls' = calls + 1
    /\ last' = Call(op, arg, outcome)
    /\ built' = NoBuilds
    /\ rt' = Idle
    /\ UNCHANGED <<alive, fixed, mutable, factory>>

Returns(op, arg) ==
    /\ calls < MaxCalls
    /\ calls' = calls + 1
    /\ last' = Call(op, arg, "ok")
    /\ built' = NoBuilds
    /\ UNCHANGED <<alive, fixed, factory>>

\* a set_model() that throws whatever enable_validation says
set_model_strict(c, model) ==
    LET models == At(c.m_schema, "models")
        listed == Contains(c.m_schema, "models") /\ Contains(models, "available")
        found == \E i \in DOMAIN At(models, "available").a :
                    At(models, "available").a[i].s = model
    IN ~(listed /\ ~found)

\* set_model(): TRUE when the call returns, FALSE when it throws
set_model_accepts(c, model) ==
    LET models == At(c.m_schema, "models")
        listed == Contains(c.m_schema, "models") /\ Contains(models, "available")
        found == \E i \in DOMAIN At(models, "available").a :
                    At(models, "available").a[i].s = model
    IN ~(listed /\ ~found /\ c.m_config.enable_validation)

set_model ==
    \E model \in ModelNames :
        /\ alive
        /\ IF set_model_accepts(Self, model)
           THEN /\ m_model_name' = model
                /\ Returns("set_model", model)
                /\ rt' = Idle
                /\ UNCHANGED <<m_headers, m_system_message, m_messages, m_parameters,
                               m_api_key>>
           ELSE Throws("set_model", model, "validation_exception")

set_system_message_accepts(c) ==
    ~(~supports_system_messages(c.m_schema) /\ c.m_config.enable_validation)

set_system_message ==
    \E system_text \in SystemTexts :
        /\ alive
        /\ IF set_system_message_accepts(Self)
           THEN /\ m_system_message' = Some(system_text)
                /\ Returns("set_system_message", system_text)
                /\ rt' = Idle
                /\ UNCHANGED <<m_headers, m_model_name, m_messages, m_parameters, m_api_key>>
           ELSE Throws("set_system_message", system_text, "validation_exception")

\* set_parameter(): TRUE when the call returns, FALSE when it throws
set_parameter_accepts(c, key, value) ==
    c.m_config.enable_validation => validate_parameter(c, key, value)

Store(parameters, key, value) ==
    [k \in DOMAIN parameters \cup {key} |-> IF k = key THEN value ELSE parameters[k]]

\* set_parameter(key, value) with kv = <<key, value>>
SetParameter(kv) ==
    /\ alive
    /\ IF set_parameter_accepts(Self, kv[1], kv[2])
       THEN /\ m_parameters' = Store(m_parameters, kv[1], kv[2])
            /\ Returns("set_parameter", kv)
            /\ rt' = Idle
            /\ UNCHANGED <<m_headers, m_model_name, m_system_message, m_messages,
                           m_api_key>>
       ELSE Throws("set_parameter", kv, "validation_exception")

set_parameter == \E kv \in ParamInputs : SetParameter(kv)

\* the loop of set_parameters() from position i of the iteration order:
\* the parameter map when the loop ends, and whether a set_parameter threw
RECURSIVE set_parameters_loop(_, _, _, _, _)
set_parameters_loop(c, params, order, i, parameters) ==
    IF i > Len(order) THEN [throws |-> FALSE, parameters |-> parameters]
    ELSE IF ~set_parameter_accepts(c, order[i], params[order[i]])
         THEN [throws |-> TRUE, parameters |-> parameters]
         ELSE set_parameters_loop(c, params, order, i + 1,
                                  Store(parameters, order[i], params[order[i]]))

set_parameters ==
    \E params \in ParamMaps :
        \E order \in Orders(DOMAIN params) :
            LET done == set_parameters_loop(Self, params, order, 1, m_parameters)
            IN /\ alive
               /\ calls < MaxCalls
               /\ calls' = calls + 1
               /\ m_parameters' = done.parameters
               /\ last' = Call("set_parameters", params,
                               IF done.throws THEN "validation_exception" ELSE "ok")
               /\ built' = NoBuilds
               /\ rt' = Idle
               /\ UNCHANGED factory
               /\ UNCHANGED <<alive, fixed, m_headers, m_model_name, m_system_message,
                              m_messages, m_api_key>>

set_api_key_accepts(c, api_key) == api_key # ""

\* set_api_key(api_key)
SetApiKey(api_key) ==
    /\ alive
    /\ IF set_api_key_accepts(Self, api_key)
       THEN /\ m_api_key' = api_key
            /\ m_headers' = build_headers(m_schema, api_key)
            /\ Returns("set_api_key", api_key)
            /\ rt' = Idle
            /\ UNCHANGED <<m_model_name, m_system_message, m_messages, m_parameters>>
       ELSE Throws("set_api_key", api_key, "validation_exception")

set_api_key == \E api_key \in ApiKeys : SetApiKey(api_key)

\* ---------------------------------------------------------- appenders
\* add_message(): TRUE when the call returns, FALSE when validate_message throws
add_message_accepts(c, message) ==
    c.m_config.enable_validation => validate_message(c, message)

\* add_message(role, content): create, validate, append
AddMessage(op, role, content) ==
    LET message == create_message(Self, role, content)
    IN /\ alive
       /\ IF add_message_accepts(Self, message)
          THEN /\ m_messages' = Append(m_messages, message)
               /\ Returns(op, <<role, content>>)
               /\ rt' = IF op = "add_user_message" /\ ~m_system_message.has
                        THEN [phase |-> 1, before |-> Len(m_messages)]
                        ELSE Idle
               /\ UNCHANGED <<m_headers, m_model_name, m_system_message, m_parameters,
                              m_api_key>>
          ELSE Throws(op, <<role, content>>, "validation_exception")

add_user_message == \E content \in Texts : AddMessage("add_user_message", "user", content)

add_assistant_message ==
    \E content \in Texts : AddMessage("add_assistant_message", "assistant", content)

add_message ==
    \E role \in OtherRoles, content \in Texts : AddMessage("add_message", role, content)

\* ------------------------------------------------------- build_request
\* a build_request() that inserts the system message into m_messages itself
messages_moved_by_build(c) == messages_array(c)

\* m_messages after build_request(): the loop copies, it does not move
messages_after_build(c) == c.m_messages

BuildRequest ==
    \E streaming \in BOOLEAN :
        LET res == build_request(Self, streaming)
        IN /\ alive
           /\ m_schema' = res.m_schema
           /\ m_messages' = messages_after_build(Self)
           /\ UNCHANGED factory
           /\ UNCHANGED <<alive, calls, m_request_template, m_config, m_valid_roles,
                          m_message_structure, m_text_content_format, m_headers,
                          m_model_name, m_system_message, m_parameters, m_api_key>>
           /\ IF res.throws
              THEN /\ last' = Call("build_request", streaming, "type_error")
                   /\ rt' = Idle
                   /\ UNCHANGED built
              ELSE /\ last' = [op |-> "build_request", arg |-> streaming, outcome |-> "ok",
                               pre |-> None, request |-> res.request,
                               prev |-> IF built.has /\ built.v.streaming = streaming
                                        THEN Some(built.v.request) ELSE None]
                   /\ built' = Some([streaming |-> streaming, request |-> res.request])
                   /\ rt' = IF rt.phase = 1
                            THEN [phase |-> 2, before |-> rt.before, first |-> res.request]
                            ELSE IF rt.phase = 3
                                 THEN [phase |-> 4, before |-> rt.before,
                                       first |-> rt.first, second |-> res.request]
                                 ELSE Idle

\* -------------------------------------------------------------- resets
\* a reset() without m_model_name.clear()
reset_model_name_kept(c) == apply_defaults(c.m_schema, c.m_model_name)

\* the model name reset() leaves: cleared, then apply_defaults()
reset_model_name(c) == apply_defaults(c.m_schema, "")

reset ==
    /\ alive
    /\ m_messages' = <<>>
    /\ m_system_message' = None
    /\ m_parameters' = <<>>
    /\ m_model_name' = reset_model_name(Self)
    /\ Returns("reset", Null)
    /\ rt' = Idle
    /\ UNCHANGED <<m_headers, m_api_key>>

\* a clear_user_messages() that clears nothing
cleared_messages_kept(c) == c.m_messages

\* the message list clear_user_messages() leaves
cleared_messages(c) == <<>>

clear_user_messages ==
    /\ alive
    /\ m_messages' = cleared_messages(Self)
    /\ Returns("clear_user_messages", Null)
    /\ rt' = IF rt.phase = 2
             THEN [phase |-> 3, before |-> rt.before, first |-> rt.first]
             ELSE Idle
    /\ UNCHANGED <<m_headers, m_model_name, m_system_message, m_parameters, m_api_key>>

clear_system_message ==
    /\ alive
    /\ m_system_message' = None
    /\ Returns("clear_system_message", Null)
    /\ rt' = Idle
    /\ UNCHANGED <<m_headers, m_model_name, m_messages, m_parameters, m_api_key>>

clear_parameters ==
    /\ alive
    /\ m_parameters' = <<>>
    /\ Returns("clear_parameters", Null)
    /\ rt' = Idle
    /\ UNCHANGED <<m_headers, m_model_name, m_system_message, m_messages, m_api_key>>

\* ------------------------------------------------------- specification
Next ==
    \/ ConstructFromPath
    \/ ConstructFromDocument
    \/ set_model
    \/ set_system_message
    \/ set_parameter
    \/ set_parameters
    \/ set_api_key
    \/ add_user_message
    \/ add_assistant_message
    \/ add_message
    \/ BuildRequest
    \/ reset
    \/ clear_user_messages
    \/ clear_system_message
    \/ clear_parameters

Spec == Init /\ [][Next]_vars

\* ---------------------------------------------------------- properties
Built == alive /\ last.op = "build_request" /\ last.outcome = "ok"

MessagesOf(request) == At(request, "messages").a

\* the text a message carries: its content string, or the text of its first block
TextOf(message) ==
    IF is_string(At(message, "content"))
    THEN At(message, "content").s
    ELSE At(At(message, "content").a[1], "text").s

C2_BuildDeterministic ==
    (Built /\ last.prev.has) => last.request = last.prev.v

C2_Witness ==
    /\ Built /\ last.prev.has
    /\ m_system_message.has /\ m_messages # <<>> /\ m_parameters # <<>>
    /\ last.request = last.prev.v

\* the sections and nested fields a schema must have
RequiredPaths ==
    {<<"provider">>, <<"api">>, <<"request_template">>, <<"message_format">>,
     <<"response_format">>, <<"api", "endpoint">>, <<"message_format", "structure">>,
     <<"message_format", "content_types">>, <<"response_format", "success", "text_path">>}

RECURSIVE HasPath(_, _)
HasPath(j, path) ==
    path = <<>> \/ (Contains(j, Head(path)) /\ HasPath(At(j, Head(path)), Tail(path)))

Constructing == last.op \in {"general_context(path)", "general_context(json)"}

\* C3: constructing a context from a schema that lacks a required top-level
\* section or a required nested field fails with a schema error and leaves
\* no context, for both constructors.
C3_SchemaRejected ==
    (Constructing /\ last.arg.kind = "json"
       /\ \E path \in RequiredPaths : ~HasPath(last.arg.doc, path))
    => (last.outcome = "schema_exception" /\ ~alive)

C3_Witness ==
    /\ last.op = "general_context(json)"
    /\ HasPath(last.arg.doc, <<"response_format", "success">>)
    /\ ~HasPath(last.arg.doc, <<"response_format", "success", "text_path">>)
    /\ last.outcome = "schema_exception" /\ ~alive

\* C4: a mutating call that raises a validation error leaves the model, the
\* system message, the message list, the parameter map, the API key and the
\* headers as they were before the call.
C4_NoPartialMutation ==
    last.outcome = "validation_exception" => Snapshot = last.pre.v

\* C5 as stated: with enable_validation = false no set/append operation
\* raises a validation error.
C5_NoValidationErrors ==
    (alive /\ ~m_config.enable_validation) => last.outcome # "validation_exception"

\* C5 amended: with enable_validation = false the only set/append operation
\* that raises a validation error is set_api_key with an empty key.
C5_OnlyEmptyKeyRejected ==
    (alive /\ ~m_config.enable_validation /\ last.outcome = "validation_exception")
    => (last.op = "set_api_key" /\ last.arg = "")

C5_Witness ==
    /\ alive /\ ~m_config.enable_validation
    /\ last.op = "set_model" /\ last.outcome = "ok"
    /\ m_model_name = "m9"
    /\ HasPath(m_schema, <<"models", "available">>)

\* C6: build_request(streaming) returns a request whose `stream` is the
\* explicit `stream` parameter when one is set, and otherwise is true exactly
\* when streaming was requested and features.streaming is true.
C6_StreamResolved ==
    (alive /\ last.op = "build_request")
    => /\ last.outcome = "ok"
       /\ Contains(last.request, "stream")
       /\ At(last.request, "stream") =
             IF "stream" \in DOMAIN m_parameters
             THEN m_parameters["stream"]
             ELSE Bool(last.arg /\ supports_streaming(m_schema))

\* C7: in a built request every parameter replaces the template's value for
\* its key (a null parameter removes the field), and max_tokens / temperature
\* take the config default only when neither the template nor a parameter has
\* the key; otherwise they keep the parameter's or the template's value.
C7_ParametersWin ==
    Built =>
      LET request == last.request
          default(k) == IF k = "max_tokens"
                        THEN (IF m_config.default_max_tokens.has
                              THEN Some(JInt(m_config.default_max_tokens.v)) ELSE None)
                        ELSE (IF m_config.default_temperature.has
                              THEN Some(Flt(m_config.default_temperature.v)) ELSE None)
          carries(k, v) == IF is_null(v) THEN ~Contains(request, k)
                           ELSE Contains(request, k) /\ At(request, k) = v
      IN /\ \A k \in DOMAIN m_parameters : carries(k, m_parameters[k])
         /\ \A k \in {"max_tokens", "temperature"} \ DOMAIN m_parameters :
               IF Contains(m_request_template, k)
               THEN carries(k, At(m_request_template, k))
               ELSE IF default(k).has
                    THEN carries(k, default(k).v)
                    ELSE ~Contains(request, k)

C7_Witness ==
    /\ Built
    /\ m_config.default_max_tokens.has /\ m_config.default_temperature.has
    /\ "max_tokens" \in DOMAIN m_parameters
    /\ At(last.request, "max_tokens") = m_parameters["max_tokens"]
    /\ At(last.request, "max_tokens") # JInt(m_config.default_max_tokens.v)
    /\ Contains(m_request_template, "temperature")
    /\ "temperature" \in DOMAIN m_parameters
    /\ At(last.request, "temperature") # At(m_request_template, "temperature")

\* C8: a built request has no null-valued object field at any depth.
C8_NoNullFields == Built => ~HasNullField(last.request)

C8_Witness ==
    /\ Built
    /\ Contains(m_request_template, "tools")
    /\ \E i \in DOMAIN At(m_request_template, "tools").a :
          HasNullField(At(m_request_template, "tools").a[i])
    /\ \E k \in DOMAIN m_parameters : is_null(m_parameters[k])
    /\ ~HasNullField(last.request)

OneUserMessage(request) ==
    /\ Len(MessagesOf(request)) = 1
    /\ At(MessagesOf(request)[1], "role") = Str("user")

ModelsDefault(schema) ==
    IF HasPath(schema, <<"models", "default">>)
    THEN At(At(schema, "models"), "default").s
    ELSE ""

\* C10: after reset() the message list is empty, no system message and no
\* parameter is set, and the model is the schema's models.default (empty when
\* there is none), as in a freshly constructed context.
C10_ResetIsFresh ==
    (alive /\ last.op = "reset")
    => /\ m_messages = <<>>
       /\ ~m_system_message.has
       /\ m_parameters = <<>>
       /\ m_model_name = ModelsDefault(m_schema)

C10_Witness ==
    /\ alive /\ last.op = "reset" /\ calls = 3
    /\ ~HasPath(m_schema, <<"models", "default">>)
    /\ m_model_name = "" /\ m_messages = <<>> /\ m_parameters = <<>>

\* ------------------------------------------------------------------ C11
AddOps == {"add_user_message", "add_assistant_message", "add_message"}

RolesChecked == alive /\ m_config.enable_validation /\ Contains(m_schema, "message_roles")

ParametersProbe ==
    Obj([temperature |-> Obj([type |-> Str("float"), min |-> Flt(0), max |-> Flt(20)]),
         max_tokens |-> Obj([type |-> Str("integer"), min |-> JInt(1), max |-> JInt(4096)]),
         top_k |-> Obj([type |-> Str("integer"), min |-> JInt(1)]),
         top_p |-> Obj([type |-> Str("float"), max |-> Flt(10)]),
         seed |-> Obj([type |-> Str("integer"), default |-> Null]),
         stream |-> Obj([type |-> Str("boolean")]),
         user |-> Obj([type |-> Str("string"), max_length |-> JInt(3)]),
         effort |-> Obj([type |-> Str("string"), enum |-> Arr(<<Str("low"), Str("high")>>)]),
         functions |-> Obj([type |-> Str("array")]),
         stop |-> Obj([type |-> Arr(<<Str("string"), Str("array")>>), default |-> Null,
                       maxItems |-> JInt(2),
                       items |-> Obj([type |-> Str("string"), maxLength |-> JInt(2)])])])

SchemaProbe == Put(SchemaChat, "parameters", ParametersProbe)

ProbeKeys == DOMAIN ParametersProbe.o \cup {"custom_param"}

ProbeValues ==
    {Null, Bool(TRUE), Str("low"), Str("ab"), Str("abcd"),
     JInt(0), JInt(1), JInt(2), JInt(4096), JInt(4097),
     Flt(-1), Flt(0), Flt(5), Flt(10), Flt(11), Flt(20), Flt(21),
     Arr(<<>>), Arr(<<Str("a")>>), Arr(<<Str("a"), Str("b")>>),
     Arr(<<Str("a"), Str("b"), Str("c")>>), Arr(<<Str("abc")>>), Arr(<<JInt(1)>>),
     Obj([type |-> Str("json_object")])}

\* the members of a context constructed from a schema the constructor accepts
Constructed(doc, config) ==
    [m_schema |-> doc, m_request_template |-> Index(doc, "request_template"),
     m_config |-> config, m_valid_roles |-> valid_roles_of(doc),
     m_message_structure |-> Index(Index(doc, "message_format"), "structure"),
     m_text_content_format |-> text_content_format_of(doc),
     m_headers |-> build_headers(doc, ""), m_model_name |-> apply_defaults(doc, ""),
     m_system_message |-> None, m_messages |-> <<>>, m_parameters |-> <<>>,
     m_api_key |-> ""]

Holds(c) ==
    /\ alive = TRUE
    /\ m_schema = c.m_schema /\ m_request_template = c.m_request_template
    /\ m_config = c.m_config /\ m_valid_roles = c.m_valid_roles
    /\ m_message_structure = c.m_message_structure
    /\ m_text_content_format = c.m_text_content_format
    /\ m_headers = c.m_headers /\ m_model_name = c.m_model_name
    /\ m_system_message = c.m_system_message /\ m_messages = c.m_messages
    /\ m_parameters = c.m_parameters /\ m_api_key = c.m_api_key
    /\ calls = 0 /\ built = NoBuilds /\ rt = Idle
    /\ FreshFactory

Pending(op, arg) == [op |-> op, arg |-> arg, outcome |-> "pending", pre |-> None]

\* a fresh context and one set_parameter(key, value) call about to be made
InitParam ==
    \E config \in Configs, key \in ProbeKeys, value \in ProbeValues :
        /\ Holds(Constructed(SchemaProbe, config))
        /\ last = Pending("set_parameter", <<key, value>>)

set_parameter_call ==
    /\ last.outcome = "pending" /\ last.op = "set_parameter"
    /\ SetParameter(last.arg)

NextParam == set_parameter_call

SpecParam == InitParam /\ [][NextParam]_vars

\* ------------------------------------------------------------------ C12
SetParameterDone == alive /\ last.op = "set_parameter" /\ last.outcome # "pending"

Declared(key) == Contains(m_schema, "parameters") /\ Contains(At(m_schema, "parameters"), key)

Declaration(key) == At(At(m_schema, "parameters"), key)

\* a value of the named schema type; every JSON number is a value of `float`
HasType(value, type) ==
    CASE type = "integer" -> value.t = "integer"
      [] type = "float" -> value.t \in {"integer", "float"}
      [] type = "string" -> value.t = "string"
      [] type = "boolean" -> value.t = "boolean"
      [] type = "array" -> value.t = "array"
      [] type = "object" -> value.t = "object"
      [] OTHER -> FALSE

\* the numeric value in tenths
Tenths(value) == IF value.t = "integer" THEN 10 * value.n ELSE value.x

WithinRange(def, value) ==
    /\ Contains(def, "min") => Tenths(At(def, "min")) <= Tenths(value)
    /\ Contains(def, "max") => Tenths(value) <= Tenths(At(def, "max"))

NumericRangeCase ==
    /\ SetParameterDone /\ m_config.enable_validation
    /\ Declared(last.arg[1])
    /\ LET def == Declaration(last.arg[1])
       IN /\ Contains(def, "type") /\ is_string(At(def, "type"))
          /\ At(def, "type").s \in {"integer", "float"}
          /\ Contains(def, "min") \/ Contains(def, "max")
          /\ HasType(last.arg[2], At(def, "type").s)

\* C12: for a parameter declared with a single numeric type and a numeric
\* min and/or max, set_parameter with validation enabled accepts a value of
\* that type exactly when min <= value <= max (the bounds included) and
\* rejects every other value with a validation error.
C12_RangeInclusive ==
    NumericRangeCase =>
        IF WithinRange(Declaration(last.arg[1]), last.arg[2])
        THEN /\ last.outcome = "ok"
             /\ last.arg[1] \in DOMAIN m_parameters
             /\ m_parameters[last.arg[1]] = last.arg[2]
        ELSE /\ last.outcome = "validation_exception"
             /\ last.arg[1] \notin DOMAIN m_parameters

C12_Witness ==
    /\ NumericRangeCase
    /\ last.arg = <<"max_tokens", JInt(4096)>>
    /\ last.outcome = "ok"
    /\ m_parameters["max_tokens"] = JInt(4096)

\* ------------------------------------------------------------------ C13
ItemsOk(def, value) ==
    /\ Contains(def, "maxItems") => Len(value.a) <= At(def, "maxItems").n
    /\ Contains(def, "items") =>
          \A i \in DOMAIN value.a :
             /\ (Contains(At(def, "items"), "type")
                   /\ At(At(def, "items"), "type") = Str("string"))
                  => value.a[i].t = "string"
             /\ (Contains(At(def, "items"), "maxLength") /\ value.a[i].t = "string")
                  => Len(value.a[i].s) <= At(At(def, "items"), "maxLength").n

\* the schema-driven reference decision for set_parameter(key, value)
Reference(key, value) ==
    IF value = Null
    THEN Declared(key) /\ Contains(Declaration(key), "default")
         /\ At(Declaration(key), "default") = Null
    ELSE IF ~Declared(key) THEN TRUE
    ELSE LET def == Declaration(key)
         IN IF Contains(def, "type") /\ At(def, "type").t = "array"
            THEN /\ \E i \in DOMAIN At(def, "type").a :
                       HasType(value, At(def, "type").a[i].s)
                 /\ value.t = "array" => ItemsOk(def, value)
            ELSE /\ (value.t = "string" /\ Contains(def, "max_length"))
                       => Len(value.s) <= At(def, "max_length").n
                 /\ Contains(def, "enum")
                       => \E i \in DOMAIN At(def, "enum").a : At(def, "enum").a[i] = value
                 /\ Contains(def, "type") => HasType(value, At(def, "type").s)
                 /\ value.t \in {"integer", "float"} => WithinRange(def, value)

AvailableModels ==
    {At(At(m_schema, "models"), "available").a[i].s :
        i \in DOMAIN At(At(m_schema, "models"), "available").a}

ModelsChecked ==
    alive /\ m_config.enable_validation /\ HasPath(m_schema, <<"models", "available">>)

\* the state after a set_model call, and after a build_request
ModelAsSet ==
    /\ (ModelsChecked /\ last.op = "set_model")
          => /\ last.outcome = "validation_exception" <=> last.arg \notin AvailableModels
             /\ last.outcome = "validation_exception"
                   => m_model_name = last.pre.v.model
    /\ (alive /\ last.op = "set_model" /\ last.outcome = "ok") => m_model_name = last.arg
    /\ (Built /\ m_model_name # "")
          => /\ Contains(last.request, "model")
             /\ At(last.request, "model") = Str(m_model_name)

\* the calls that change the current model
ModelChangedBySetOrReset ==
    m_model_name' # m_model_name
        => last'.op \in {"set_model", "reset", "general_context(path)", "general_context(json)"}

DigitChars == <<"0", "1", "2", "3", "4", "5", "6", "7", "8", "9">>

\* std::to_string(int)
RECURSIVE to_string(_)
to_string(n) ==
    IF n < 0 THEN "-" \o to_string(0 - n)
    ELSE IF n < 10 THEN DigitChars[n + 1]
    ELSE to_string(n \div 10) \o DigitChars[(n % 10) + 1]

\* key.find_first_not_of("0123456789") == npos (true of the empty string)
all_digits(key) ==
    \A i \in 1..Len(key) : \E d \in DOMAIN DigitChars : SubSeq(key, i, i) = DigitChars[d]

\* std::stoi on a string of digits (the empty string throws invalid_argument)
RECURSIVE stoi(_)
stoi(key) ==
    IF Len(key) = 0 THEN 0
    ELSE 10 * stoi(SubSeq(key, 1, Len(key) - 1))
         + ((CHOOSE d \in DOMAIN DigitChars :
                SubSeq(key, Len(key), Len(key)) = DigitChars[d]) - 1)

\* parse_json_path() on a path array: strings are kept, numbers are written
\* in decimal, any other element is skipped
RECURSIVE parse_json_path_from(_, _)
parse_json_path_from(elements, i) ==
    IF i > Len(elements) THEN <<>>
    ELSE LET element == elements[i]
             rest == parse_json_path_from(elements, i + 1)
         IN IF is_string(element) THEN <<element.s>> \o rest
            ELSE IF is_number_integer(element) THEN <<to_string(element.n)>> \o rest
            ELSE rest

\* a parse_json_path() that keeps the string elements only
parse_json_path_strings_only(path_array) ==
    [i \in 1..Len(SelectSeq(path_array.a, is_string)) |->
        SelectSeq(path_array.a, is_string)[i].s]

parse_json_path(path_array) == parse_json_path_from(path_array.a, 1)

\* m_text_path as cache_schema_elements() fills it
m_text_path(c) ==
    parse_json_path(At(At(At(c.m_schema, "response_format"), "success"), "text_path"))

\* m_error_path as cache_schema_elements() fills it (empty when not declared)
m_error_path(c) ==
    LET format == At(c.m_schema, "response_format")
    IN IF Contains(format, "error") /\ Contains(At(format, "error"), "error_path")
       THEN parse_json_path(At(At(format, "error"), "error_path"))
       ELSE <<>>

\* resolve_path(): the node reached, or throws
RECURSIVE resolve_path(_, _)
resolve_path(json, path) ==
    IF path = <<>> THEN [throws |-> FALSE, value |-> json]
    ELSE LET key == Head(path)
         IN IF all_digits(key)
            THEN IF Len(key) = 0 \/ ~is_array(json) \/ stoi(key) >= Len(json.a)
                 THEN [throws |-> TRUE, value |-> Null]
                 ELSE resolve_path(json.a[stoi(key) + 1], Tail(path))
            ELSE IF ~is_object(json) \/ ~Contains(json, key)
                 THEN [throws |-> TRUE, value |-> Null]
                 ELSE resolve_path(At(json, key), Tail(path))

\* extract_text_response(): the text, or the std::runtime_error it throws
extract_text_response(c, response) ==
    LET text_node == resolve_path(response, m_text_path(c))
    IN IF text_node.throws \/ ~is_string(text_node.value)
       THEN [outcome |-> "runtime_error", text |-> ""]
       ELSE [outcome |-> "ok", text |-> text_node.value.s]

\* an extract_error() without the try block around resolve_path
extract_error_unguarded(c, response) ==
    IF m_error_path(c) = <<>> THEN [outcome |-> "ok", text |-> "Unknown error"]
    ELSE LET error_node == resolve_path(response, m_error_path(c))
         IN IF error_node.throws \/ ~is_string(error_node.value)
            THEN [outcome |-> "runtime_error", text |-> ""]
            ELSE [outcome |-> "ok", text |-> error_node.value.s]

\* extract_error(): never throws
extract_error(c, response) ==
    IF m_error_path(c) = <<>> THEN [outcome |-> "ok", text |-> "Unknown error"]
    ELSE LET error_node == resolve_path(response, m_error_path(c))
         IN IF error_node.throws \/ ~is_string(error_node.value)
            THEN [outcome |-> "ok", text |-> "Failed to parse error message"]
            ELSE [outcome |-> "ok", text |-> error_node.value.s]

\* response_format sections: OpenAI style, Claude style without an error
\* section, and one whose paths end in an array index
ResponseFormats ==
    {Obj([success |-> Obj([text_path |-> Arr(<<Str("choices"), JInt(0), Str("message"),
                                                Str("content")>>)]),
          error |-> Obj([error_path |-> Arr(<<Str("error"), Str("message")>>)])]),
     Obj([success |-> Obj([text_path |-> Arr(<<Str("content"), JInt(0), Str("text")>>)])]),
     Obj([success |-> Obj([text_path |-> Arr(<<Str("data"), JInt(1)>>)]),
          error |-> Obj([error_path |-> Arr(<<Str("errors"), JInt(0), Str("detail")>>)])])}

ExtractSchemas == {Put(SchemaChat, "response_format", format) : format \in ResponseFormats}

Message(content) == Obj([message |-> Obj([content |-> content])])

Responses ==
    {Obj([choices |-> Arr(<<Message(Str("hi"))>>)]),
     Obj([choices |-> Arr(<<Message(Str("hi")), Message(Str("ho"))>>)]),
     Obj([choices |-> Arr(<<>>)]),
     Obj([choices |-> Message(Str("hi"))]),
     Obj([choices |-> Arr(<<Message(JInt(5))>>)]),
     Obj([choices |-> Arr(<<Message(Null)>>)]),
     Obj([choices |-> Arr(<<Obj([message |-> EmptyObj])>>)]),
     Obj([choices |-> Arr(<<Obj([message |-> Arr(<<Str("hi")>>)])>>)]),
     Obj([content |-> Arr(<<Obj([type |-> Str("text"), text |-> Str("yo")])>>)]),
     Obj([content |-> Str("plain")]),
     Obj([content |-> Arr(<<Arr(<<Str("yo")>>)>>)]),
     Obj([content |-> Arr(<<>>)]),
     Obj([data |-> Arr(<<Str("a"), Str("b")>>)]),
     Obj([data |-> Arr(<<Str("a")>>)]),
     Obj([data |-> Arr(<<Str("a"), Obj([text |-> Str("b")])>>)]),
     Obj([error |-> Obj([message |-> Str("bad key"), type |-> Str("auth")])]),
     Obj([error |-> Str("bad key")]),
     Obj([error |-> Obj([message |-> Null])]),
     Obj([error |-> Obj([message |-> Obj([text |-> Str("bad")])])]),
     Obj([errors |-> Arr(<<Obj([detail |-> Str("d")])>>)]),
     Obj([errors |-> Arr(<<>>)]),
     Obj([errors |-> Obj([detail |-> Str("d")])]),
     EmptyObj, Null, Str("hi"), Arr(<<Str("hi")>>)}

\* a fresh context and one extraction call about to be made
InitExtract ==
    \E doc \in ExtractSchemas, config \in Configs, response \in Responses,
       op \in {"extract_text_response", "extract_error"} :
        /\ Holds(Constructed(doc, config))
        /\ last = Pending(op, response)

Extracted(op, response, res) ==
    /\ alive
    /\ last.outcome = "pending" /\ last.op = op
    /\ last' = [op |-> op, arg |-> response, outcome |-> res.outcome, pre |-> None,
                text |-> res.text]
    /\ UNCHANGED <<alive, fixed, mutable, calls, built, rt, factory>>

extract_text_response_call == Extracted("extract_text_response", last.arg,
                                        extract_text_response(Self, last.arg))

extract_error_call == Extracted("extract_error", last.arg, extract_error(Self, last.arg))

NextExtract ==
    \/ extract_text_response_call
    \/ extract_error_call

SpecExtract == InitExtract /\ [][NextExtract]_vars

\* ------------------------------------------------------------------ C15
\* the node reached by walking a path array through a response: a string
\* segment selects an object key, an integer segment an array element
RECURSIVE Walk(_, _)
Walk(node, segments) ==
    IF segments = <<>> THEN Some(node)
    ELSE LET segment == Head(segments)
         IN IF segment.t = "string"
            THEN IF node.t = "object" /\ segment.s \in DOMAIN node.o
                 THEN Walk(node.o[segment.s], Tail(segments))
                 ELSE None
            ELSE IF node.t = "array" /\ segment.n >= 0 /\ segment.n < Len(node.a)
                 THEN Walk(node.a[segment.n + 1], Tail(segments))
                 ELSE None

ReachesString(node, segments) ==
    Walk(node, segments).has /\ Walk(node, segments).v.t = "string"

TextPath == At(At(At(m_schema, "response_format"), "success"), "text_path").a

ErrorPathDeclared == HasPath(m_schema, <<"response_format", "error", "error_path">>)

ErrorPath == At(At(At(m_schema, "response_format"), "error"), "error_path").a

Placeholders == {"Unknown error", "Failed to parse error message"}

\* C16: extract_error(r) never raises: it returns the string at error_path
\* when the path resolves to a string and a fixed placeholder string when no
\* error path is declared, a segment is missing, a kind does not match or
\* the node is not a string.
C16_ErrorExtracted ==
    (alive /\ last.op = "extract_error" /\ last.outcome # "pending") =>
        /\ last.outcome = "ok"
        /\ IF ErrorPathDeclared /\ ReachesString(last.arg, ErrorPath)
           THEN last.text = Walk(last.arg, ErrorPath).v.s
           ELSE last.text = (IF ErrorPathDeclared THEN "Failed to parse error message"
                             ELSE "Unknown error")

C16_Witness ==
    /\ alive /\ last.op = "extract_error" /\ last.outcome = "ok"
    /\ ErrorPathDeclared
    /\ last.arg = Obj([error |-> Str("bad key")])
    /\ last.text = "Failed to parse error message"

\* ------------------------------------------ schema_registry, context_factory
MaxFactoryCalls == 3

SchemaDirectory == "test_schemas"

RegisteredPaths == [custom_provider |-> "custom_schemas/provider3.json"]

\* schema_registry::resolve_schema_path() for a non-empty provider name
resolve_schema_path(provider_name) ==
    IF provider_name \in DOMAIN RegisteredPaths
    THEN RegisteredPaths[provider_name]
    ELSE SchemaDirectory \o "/" \o provider_name \o ".json"

\* the schema files on disk: two providers whose schema the context accepts,
\* one that is JSON but no schema, one that is not JSON
FileSystem ==
    [path \in {"test_schemas/provider1.json", "test_schemas/provider2.json",
               "test_schemas/partial.json", "test_schemas/garbled.json",
               "other_schemas/provider1.json"} |->
        CASE path = "test_schemas/provider1.json" -> [kind |-> "json", doc |-> SchemaMinimal]
          [] path = "other_schemas/provider1.json" -> [kind |-> "json", doc |-> SchemaChat]
          [] path = "test_schemas/provider2.json" -> [kind |-> "json", doc |-> SchemaBlocks]
          [] path = "test_schemas/partial.json" ->
                [kind |-> "json", doc |-> Without2(SchemaMinimal, "api", "endpoint")]
          [] OTHER -> [kind |-> "garbage"]]

Providers == {"provider1", "provider2", "partial", "garbled", "nonexistent_provider"}

\* std::filesystem::exists(schema_path)
exists(path) == path \in DOMAIN FileSystem

\* get_cache_stats(): cache_size, hit_count, miss_count
cache_stats(cache, hits, misses) ==
    [cache_size |-> Cardinality(DOMAIN cache), hit_count |-> hits, miss_count |-> misses]

\* general_context(const nlohmann::json&, config): returns or throws
construct_outcome(doc) ==
    IF ~validate_schema(doc) THEN "schema_exception"
    ELSE IF cache_schema_elements_throws(doc) THEN "type_error"
    ELSE "ok"

\* tl_contexts[provider_name]: the entry is created empty when it is not there
Slot(contexts, provider_name) ==
    [p \in DOMAIN contexts \cup {provider_name} |->
        IF p \in DOMAIN contexts THEN contexts[p] ELSE None]

\* a map of contexts declared static: one map for every thread
tl_owner_static(t) == "main"

\* `thread_local` tl_contexts: each thread sees its own map
tl_owner(t) == t

\* a get_cached_schema() that does not count a hit
get_cached_schema_hit_uncounted(cache, path, hits, misses) ==
    IF path \in DOMAIN cache
    THEN [found |-> TRUE, hits |-> hits, misses |-> misses]
    ELSE [found |-> FALSE, hits |-> hits, misses |-> misses + 1]

\* get_cached_schema(): whether the path is cached, and the two counters after
\* the fetch_add
get_cached_schema(cache, path, hits, misses) ==
    IF path \in DOMAIN cache
    THEN [found |-> TRUE, hits |-> hits + 1, misses |-> misses]
    ELSE [found |-> FALSE, hits |-> hits, misses |-> misses + 1]

NoOverlap(t) == fhist.sequential /\ \A u \in Threads \ {t} : pc[u].at = "idle"

BeginCall(t) ==
    /\ pc[t].at = "idle"
    /\ fcalls < MaxFactoryCalls
    /\ fcalls' = fcalls + 1

\* the call of pc[t] (or the one that begins and ends in this step) is over:
\* create_context hands out a new instance, get_thread_local_context stores it
\* in the caller's thread-local map first
Complete(t, op, provider_name, pre, outcome, doc, looked) ==
    LET id == fhist.instances + 1
        made == outcome = "ok"
        mine == Slot(tl_contexts[tl_owner(t)], provider_name)
    IN /\ pc' = [pc EXCEPT ![t] = [at |-> "idle"]]
       /\ tl_contexts' =
             IF op = "get_thread_local_context"
             THEN [tl_contexts EXCEPT ![tl_owner(t)] =
                     IF made
                     THEN [mine EXCEPT ![provider_name] =
                             Some([id |-> id, factory |-> "factory",
                                   ctx |-> Constructed(doc, Config(TRUE, None, None))])]
                     ELSE mine]
             ELSE tl_contexts
       /\ fhist' = [lookups |-> fhist.lookups + looked,
                    instances |-> IF made THEN id ELSE fhist.instances,
                    sequential |-> NoOverlap(t),
                    returned |-> IF made /\ op = "get_thread_local_context"
                                 THEN fhist.returned \cup {<<t, provider_name, id>>}
                                 ELSE fhist.returned,
                    requested |-> fhist.requested \cup {provider_name},
                    failed |-> fhist.failed \/ ~made,
                    cleared |-> fhist.cleared,
                    added |-> fhist.added]
       /\ flast' = [op |-> op, thread |-> t, provider |-> provider_name,
                    outcome |-> outcome, instance |-> IF made THEN id ELSE 0,
                    pre |-> pre,
                    stats |-> cache_stats(m_schema_cache', m_cache_hits', m_cache_misses')]

\* create_context() up to and including get_cached_schema(): the file is
\* missing (throws), the schema is cached (hit, construct, return), or it is
\* not (miss, load_and_cache_schema comes next). The lookup and its
\* fetch_add run under the shared lock.
CreateContext(t, op, provider_name) ==
    LET schema_path == resolve_schema_path(provider_name)
        pre == [stats |-> cache_stats(m_schema_cache, m_cache_hits, m_cache_misses),
                cached |-> schema_path \in DOMAIN m_schema_cache,
                exists |-> exists(schema_path)]
        cached_schema == get_cached_schema(m_schema_cache, schema_path, m_cache_hits,
                                           m_cache_misses)
    IN /\ BeginCall(t)
       /\ IF ~exists(schema_path)
          THEN /\ UNCHANGED <<m_schema_cache, m_cache_hits, m_cache_misses>>
               /\ Complete(t, op, provider_name, pre, "schema_exception", Null, 0)
          ELSE IF cached_schema.found
          THEN /\ m_cache_hits' = cached_schema.hits
               /\ m_cache_misses' = cached_schema.misses
               /\ UNCHANGED m_schema_cache
               /\ Complete(t, op, provider_name, pre,
                           construct_outcome(m_schema_cache[schema_path]),
                           m_schema_cache[schema_path], 1)
          ELSE /\ m_cache_hits' = cached_schema.hits
               /\ m_cache_misses' = cached_schema.misses
               /\ UNCHANGED <<m_schema_cache, flast>>
               /\ pc' = [pc EXCEPT ![t] = [at |-> "load_and_cache_schema", op |-> op,
                                           provider |-> provider_name,
                                           path |-> schema_path, pre |-> pre]]
               /\ tl_contexts' = IF op = "get_thread_local_context"
                                 THEN [tl_contexts EXCEPT
                                         ![tl_owner(t)] = Slot(tl_contexts[tl_owner(t)], provider_name)]
                                 ELSE tl_contexts
               /\ fhist' = [fhist EXCEPT !.lookups = @ + 1, !.sequential = NoOverlap(t),
                                         !.requested = @ \cup {provider_name}]
       /\ UNCHANGED <<context, tl_cache, other_factory>>

create_context == \E t \in Threads, p \in Providers : CreateContext(t, "create_context", p)

\* an insertion that replaces the cache by the one entry
cache_insert_alone(cache, path, doc) == [q \in {path} |-> doc]

\* m_schema_cache[schema_path] = schema, under the unique lock
cache_insert(cache, path, doc) ==
    [q \in DOMAIN cache \cup {path} |-> IF q = path THEN doc ELSE cache[q]]

\* load_and_cache_schema() and the constructor call that follows it
load_and_cache_schema ==
    \E t \in Threads :
        /\ pc[t].at = "load_and_cache_schema"
        /\ UNCHANGED <<m_cache_hits, m_cache_misses, fcalls>>
        /\ IF FileSystem[pc[t].path].kind # "json"
           THEN /\ UNCHANGED m_schema_cache
                /\ Complete(t, pc[t].op, pc[t].provider, pc[t].pre, "schema_exception",
                            Null, 0)
           ELSE /\ m_schema_cache' = cache_insert(m_schema_cache, pc[t].path,
                                                   FileSystem[pc[t].path].doc)
                /\ Complete(t, pc[t].op, pc[t].provider, pc[t].pre,
                            construct_outcome(FileSystem[pc[t].path].doc),
                            FileSystem[pc[t].path].doc, 0)
        /\ UNCHANGED <<context, tl_cache, other_factory>>

\* get_thread_local_context(): the stored context when there is one, else
\* create_context
get_thread_local_context ==
    \E t \in Threads, p \in Providers :
        IF p \in DOMAIN tl_contexts[tl_owner(t)] /\ tl_contexts[tl_owner(t)][p].has
        THEN /\ BeginCall(t)
             /\ flast' = [op |-> "get_thread_local_context", thread |-> t, provider |-> p,
                          outcome |-> "ok", instance |-> tl_contexts[tl_owner(t)][p].v.id,
                          pre |-> [stats |-> cache_stats(m_schema_cache, m_cache_hits,
                                                         m_cache_misses),
                                   cached |-> TRUE, exists |-> TRUE],
                          stats |-> cache_stats(m_schema_cache, m_cache_hits,
                                                m_cache_misses)]
             /\ fhist' = [fhist EXCEPT
                            !.sequential = NoOverlap(t),
                            !.requested = @ \cup {p},
                            !.returned = @ \cup {<<t, p, tl_contexts[tl_owner(t)][p].v.id>>}]
             /\ UNCHANGED <<m_schema_cache, m_cache_hits, m_cache_misses, tl_contexts, pc,
                            context, tl_cache, other_factory>>
        ELSE CreateContext(t, "get_thread_local_context", p)

\* a clear_cache() that also zeroes the two counters
counters_after_clear_reset(hits, misses) == [hits |-> 0, misses |-> 0]

\* the counters clear_cache() leaves
counters_after_clear(hits, misses) == [hits |-> hits, misses |-> misses]

Atomic(t, op) ==
    /\ BeginCall(t)
    /\ flast' = [op |-> op, thread |-> t, outcome |-> "ok",
                 pre |-> [stats |-> cache_stats(m_schema_cache, m_cache_hits,
                                                m_cache_misses)],
                 stats |-> cache_stats(m_schema_cache', m_cache_hits', m_cache_misses')]
    /\ fhist' = [fhist EXCEPT !.sequential = NoOverlap(t),
                              !.cleared = @ \/ op = "clear_cache"]
    /\ UNCHANGED <<pc, context, tl_cache, other_factory>>

clear_cache ==
    \E t \in Threads :
        /\ m_schema_cache' = <<>>
        /\ m_cache_hits' = counters_after_clear(m_cache_hits, m_cache_misses).hits
        /\ m_cache_misses' = counters_after_clear(m_cache_hits, m_cache_misses).misses
        /\ UNCHANGED tl_contexts
        /\ Atomic(t, "clear_cache")

get_cache_stats ==
    \E t \in Threads :
        /\ UNCHANGED <<m_schema_cache, m_cache_hits, m_cache_misses, tl_contexts>>
        /\ Atomic(t, "get_cache_stats")

\* add_user_message on the context get_thread_local_context returned to t;
\* the text names the thread that adds it
thread_local_add_user_message ==
    \E t \in Threads, p \in Providers :
        /\ p \in DOMAIN tl_contexts[tl_owner(t)] /\ tl_contexts[tl_owner(t)][p].has
        /\ LET c == tl_contexts[tl_owner(t)][p].v.ctx
               message == create_message(c, "user", t)
           IN tl_contexts' =
                 [tl_contexts EXCEPT ![tl_owner(t)][p] =
                     IF add_message_accepts(c, message)
                     THEN Some([@.v EXCEPT !.ctx = [c EXCEPT !.m_messages = Append(@, message)]])
                     ELSE @]
        /\ UNCHANGED <<m_schema_cache, m_cache_hits, m_cache_misses>>
        /\ Atomic(t, "add_user_message")

InitFactory == Init

NextFactory ==
    \/ create_context
    \/ load_and_cache_schema
    \/ get_thread_local_context
    \/ clear_cache
    \/ get_cache_stats
    \/ thread_local_add_user_message

SpecFactory == InitFactory /\ [][NextFactory]_vars

\* ------------------------------------------------------------------ C17
CreateContextDone == flast.op = "create_context" /\ fhist.sequential

Parses(provider_name) == FileSystem[resolve_schema_path(provider_name)].kind = "json"

Counted(size, hits, misses) ==
    /\ flast.stats.cache_size = flast.pre.stats.cache_size + size
    /\ flast.stats.hit_count = flast.pre.stats.hit_count + hits
    /\ flast.stats.miss_count = flast.pre.stats.miss_count + misses

\* C17 as stated: in a sequential run on a fresh factory a create_context
\* for a provider whose schema is not cached adds one to miss_count and to
\* cache_size and leaves hit_count, and one for a cached schema adds one to
\* hit_count and leaves miss_count and cache_size.
C17_CacheCounters ==
    CreateContextDone =>
        IF flast.pre.cached THEN Counted(0, 1, 0) ELSE Counted(1, 0, 1)

\* C17 amended: a create_context whose schema file does not exist changes no
\* counter; one whose file exists and is not cached adds one to miss_count
\* and adds one to cache_size exactly when the file parses as JSON; one
\* whose schema is cached adds one to hit_count only.
C17_CacheCountersOfLoadedFiles ==
    CreateContextDone =>
        IF ~flast.pre.exists THEN Counted(0, 0, 0) /\ flast.outcome = "schema_exception"
        ELSE IF flast.pre.cached THEN Counted(0, 1, 0)
        ELSE IF Parses(flast.provider) THEN Counted(1, 0, 1)
        ELSE Counted(0, 0, 1) /\ flast.outcome = "schema_exception"

C17_Witness ==
    /\ CreateContextDone
    /\ flast.provider = "provider2" /\ flast.outcome = "ok"
    /\ flast.pre.stats = [cache_size |-> 1, hit_count |-> 1, miss_count |-> 1]
    /\ flast.stats = [cache_size |-> 2, hit_count |-> 1, miss_count |-> 2]

\* ------------------------------------------------------------------ C18
\* C18: after clear_cache(), get_cache_stats() reports cache_size = 0,
\* hit_count = 0 and miss_count = 0 whatever create_context calls came before.
C18_StatsZeroAfterClear ==
    (flast.op = "clear_cache" /\ \A t \in Threads : pc[t].at = "idle")
        => cache_stats(m_schema_cache, m_cache_hits, m_cache_misses)
             = [cache_size |-> 0, hit_count |-> 0, miss_count |-> 0]

\* ------------------------------------------------------------------ C19
Lookup == fhist'.lookups = fhist.lookups + 1

InstancesOf(t, p) == {r[3] : r \in {q \in fhist.returned : q[1] = t /\ q[2] = p}}

AllCompleted == \A t \in Threads : pc[t].at = "idle"

\* the providers of the concurrency test: their schema files exist and the
\* context accepts them
LoadableProviders ==
    {p \in Providers : /\ exists(resolve_schema_path(p))
                       /\ Parses(p)
                       /\ construct_outcome(FileSystem[resolve_schema_path(p)].doc) = "ok"}

ConcurrentRun == fhist.requested \subseteq LoadableProviders /\ ~fhist.cleared

\* C21: when threads call create_context and get_thread_local_context
\* concurrently on one factory for providers with loadable schemas, no
\* call fails, and once every call has completed cache_size is the number
\* of distinct providers requested and hit_count + miss_count is the number
\* of cache lookups made.
C21_ConcurrentCalls ==
    ConcurrentRun =>
        /\ ~fhist.failed
        /\ AllCompleted =>
              /\ Cardinality(DOMAIN m_schema_cache) = Cardinality(fhist.requested)
              /\ m_cache_hits + m_cache_misses = fhist.lookups

C21_Witness ==
    /\ ConcurrentRun /\ AllCompleted /\ ~fhist.sequential
    /\ fhist.requested = {"provider1", "provider2"}
    /\ m_cache_misses = 3 /\ fhist.lookups = 3
    /\ flast.op = "get_thread_local_context" /\ flast.outcome = "ok"

\* ------------------------------------------------------------------ chat_api
\* http_response as the transport fills it
Response(success, error_message, body) ==
    [success |-> success, error_message |-> error_message, body |-> body]

BodyHi == "{\"choices\":[{\"text\":\"hi\"}]}"
BodyHo == "{\"choices\":[{\"text\":\"ho\"}]}"
BodyEmptyText == "{\"choices\":[{\"text\":\"\"}]}"
BodyNoText == "{\"choices\":[{}]}"
BodyTruncated == "{\"choices\":[{\"te"
BodyHtml == "<html>502</html>"

Choice(fields) == Obj([choices |-> Arr(<<fields>>)])

\* the JSON texts that reach the parser, with the documents they stand for;
\* every other text is malformed
JsonDocuments ==
    [text \in {BodyHi, BodyHo, BodyEmptyText, BodyNoText} |->
        CASE text = BodyHi -> Choice(Obj([text |-> Str("hi")]))
          [] text = BodyHo -> Choice(Obj([text |-> Str("ho")]))
          [] text = BodyEmptyText -> Choice(Obj([text |-> Str("")]))
          [] OTHER -> Choice(EmptyObj)]

\* nlohmann::json::parse(text): the document, or a parse_error
json_parse(text) ==
    IF text \in DOMAIN JsonDocuments
    THEN [throws |-> FALSE, value |-> JsonDocuments[text]]
    ELSE [throws |-> TRUE, value |-> Null]

\* what post() can return
TransportResponses ==
    {Response(FALSE, "timeout", ""),
     Response(TRUE, "", BodyHi),
     Response(TRUE, "", BodyNoText),
     Response(TRUE, "", BodyTruncated),
     Response(TRUE, "", BodyHtml)}

\* a check that takes any stored message for a user message
has_user_message_any(c) == c.m_messages # <<>>

\* the loop over get_messages() looking for role == "user"
has_user_message(c) ==
    \E i \in DOMAIN c.m_messages : Index(c.m_messages[i], "role") = Str("user")

\* a thrown exception: its dynamic class and what() text
Raised(kind, what) == [outcome |-> kind, what |-> what, text |-> ""]

\* send_message(text) after post() returned
received_text(c, response) ==
    IF ~response.success
    THEN Raised("runtime_error", "API request failed: " \o response.error_message)
    ELSE LET json_response == json_parse(response.body)
         IN IF json_response.throws
            THEN Raised("failed_api_response", "Failed to parse API response: parse error")
            ELSE LET text == extract_text_response(c, json_response.value)
                 IN IF text.outcome # "ok"
                    THEN Raised("failed_api_response",
                                "Failed to parse API response: Failed to extract text response")
                    ELSE [outcome |-> "ok", what |-> "", text |-> text.text]

\* send_message() after post() returned
received(c, response) ==
    IF ~response.success
    THEN Raised("failed_api_response",
                "Failed to parse API response: " \o response.error_message)
    ELSE LET json_response == json_parse(response.body)
         IN IF json_response.throws
            THEN Raised("failed_api_response",
                        "Failed to parse API response: Failed to parse API response: parse error")
            ELSE LET text == extract_text_response(c, json_response.value)
                 IN IF text.outcome # "ok"
                    THEN Raised("failed_api_response",
                                "Failed to parse API response: Failed to parse API response: Failed to extract text response")
                    ELSE [outcome |-> "ok", what |-> "", text |-> text.text]

\* m_http_client->set_headers(get_headers()); post or post_stream(get_endpoint(), request)
Posted(method, c, request) ==
    Some([method |-> method, url |-> Index(Index(c.m_schema, "api"), "endpoint"),
          body |-> request, headers |-> c.m_headers])

\* a send is over: what it raised or returned, whether and with what it
\* reached the transport, and the message list it found
Sent(op, arg, res, transport, response) ==
    /\ alive
    /\ calls < MaxCalls
    /\ calls' = calls + 1
    /\ last' = [op |-> op, arg |-> arg, outcome |-> res.outcome, what |-> res.what,
                text |-> res.text, pre |-> None, before |-> m_messages,
                transport |-> transport, response |-> response]
    /\ built' = NoBuilds
    /\ rt' = Idle
    /\ UNCHANGED <<alive, m_request_template, m_config, m_valid_roles, m_message_structure,
                   m_text_content_format, m_headers, m_model_name, m_system_message,
                   m_parameters, m_api_key, factory>>

\* clear_user_messages(); add_user_message(message): the context the request
\* is built from, or the validation_exception of add_message
Replaced(c, message) ==
    LET cleared == [c EXCEPT !.m_messages = cleared_messages(c)]
        user_message == create_message(cleared, "user", message)
    IN [throws |-> ~add_message_accepts(cleared, user_message),
        c |-> IF add_message_accepts(cleared, user_message)
              THEN [cleared EXCEPT !.m_messages = Append(@, user_message)]
              ELSE cleared]

\* std::string send_message(const std::string& message, cancel_check)
send_message_text ==
    \E message \in Texts, response \in TransportResponses :
        LET added == Replaced(Self, message)
            res == build_request(added.c, FALSE)
        IN /\ m_messages' = added.c.m_messages
           /\ IF added.throws
              THEN /\ Sent("send_message(text)", message,
                           Raised("validation_exception", "Invalid message"), None, None)
                   /\ UNCHANGED m_schema
              ELSE /\ m_schema' = res.m_schema
                   /\ IF res.throws
                      THEN Sent("send_message(text)", message,
                                Raised("type_error", "type must be boolean"), None, None)
                      ELSE Sent("send_message(text)", message,
                                received_text(added.c, response),
                                Posted("post", added.c, res.request), Some(response))

\* std::string send_message(cancel_check)
send_message ==
    \E response \in TransportResponses :
        LET res == build_request(Self, FALSE)
        IN /\ UNCHANGED m_messages
           /\ IF ~has_user_message(Self)
              THEN /\ Sent("send_message()", Null,
                           Raised("no_user_message_error", "No user message found in context"),
                           None, None)
                   /\ UNCHANGED m_schema
              ELSE /\ m_schema' = res.m_schema
                   /\ IF res.throws
                      THEN Sent("send_message()", Null,
                                Raised("type_error", "type must be boolean"), None, None)
                      ELSE Sent("send_message()", Null, received(Self, response),
                                Posted("post", Self, res.request), Some(response))

NotSupported ==
    Raised("streaming_not_supported_error", "Streaming is not supported by this provider")

\* void send_message_stream(const std::string& message, on_chunk, on_complete, cancel_check)
send_message_stream_text ==
    \E message \in Texts :
        LET added == Replaced(Self, message)
            res == build_request(added.c, FALSE)
        IN IF ~supports_streaming(m_schema)
           THEN /\ Sent("send_message_stream(text)", message, NotSupported, None, None)
                /\ UNCHANGED <<m_schema, m_messages>>
           ELSE /\ m_messages' = added.c.m_messages
                /\ IF added.throws
                   THEN /\ Sent("send_message_stream(text)", message,
                                Raised("validation_exception", "Invalid message"), None, None)
                        /\ UNCHANGED m_schema
                   ELSE /\ m_schema' = res.m_schema
                        /\ IF res.throws
                           THEN Sent("send_message_stream(text)", message,
                                     Raised("type_error", "type must be boolean"), None, None)
                           ELSE Sent("send_message_stream(text)", message,
                                     [outcome |-> "ok", what |-> "", text |-> ""],
                                     Posted("post_stream", added.c,
                                            Put(res.request, "stream", Bool(TRUE))),
                                     None)

\* void send_message_stream(on_chunk, on_complete, cancel_check)
send_message_stream ==
    LET res == build_request(Self, TRUE)
    IN /\ UNCHANGED m_messages
       /\ IF ~supports_streaming(m_schema)
          THEN /\ Sent("send_message_stream()", Null, NotSupported, None, None)
               /\ UNCHANGED m_schema
          ELSE IF ~has_user_message(Self)
          THEN /\ Sent("send_message_stream()", Null,
                       Raised("no_user_message_error", "No user message found in context"),
                       None, None)
               /\ UNCHANGED m_schema
          ELSE /\ m_schema' = res.m_schema
               /\ IF res.throws
                  THEN Sent("send_message_stream()", Null,
                            Raised("type_error", "type must be boolean"), None, None)
                  ELSE Sent("send_message_stream()", Null,
                            [outcome |-> "ok", what |-> "", text |-> ""],
                            Posted("post_stream", Self, res.request), None)

\* ------------------------------------------------------- parse_stream_chunk
\* lines of one chunk
MaxLines == 3

\* std::getline over the chunk: the text up to each '\n', and what follows
\* the last one when it is not empty
RECURSIVE getlines(_)
getlines(str) ==
    IF str = "" THEN <<>>
    ELSE LET i == Find(str, "\n", 1)
         IN IF i = 0 THEN <<str>>
            ELSE <<SubSeq(str, 1, i - 1)>> \o getlines(SubSeq(str, i + 1, Len(str)))

\* if (!line.empty() && line.back() == '\r') line.pop_back()
pop_carriage_return(line) ==
    IF line # "" /\ SubSeq(line, Len(line), Len(line)) = "\r"
    THEN SubSeq(line, 1, Len(line) - 1)
    ELSE line

DATA_PREFIX == "data: "

\* line.compare(0, DATA_PREFIX.length(), DATA_PREFIX) == 0
has_data_prefix(line) ==
    Len(line) >= Len(DATA_PREFIX) /\ SubSeq(line, 1, Len(DATA_PREFIX)) = DATA_PREFIX

\* the while loop of parse_stream_chunk() from line i on: the texts handed
\* to on_chunk. A json exception is caught inside the loop, every other
\* exception by the handler around it, which ends the call.
RECURSIVE parse_stream_lines(_, _, _, _)
parse_stream_lines(c, lines, i, delivered) ==
    IF i > Len(lines) THEN delivered
    ELSE LET line == pop_carriage_return(lines[i])
             json_str == SubSeq(line, Len(DATA_PREFIX) + 1, Len(line))
             json_chunk == json_parse(json_str)
             content == extract_text_response(c, json_chunk.value)
         IN IF line = "" \/ ~has_data_prefix(line)
            THEN parse_stream_lines(c, lines, i + 1, delivered)
            ELSE IF json_str = "[DONE]" THEN delivered
            ELSE IF json_chunk.throws
            THEN parse_stream_lines(c, lines, i + 1, delivered)
            ELSE IF content.outcome # "ok" THEN delivered
            ELSE parse_stream_lines(c, lines, i + 1,
                                    IF content.text # "" THEN Append(delivered, content.text)
                                    ELSE delivered)

\* parse_stream_chunk(chunk, on_chunk): it never throws
parse_stream_chunk(c, chunk) ==
    [outcome |-> "ok", delivered |-> parse_stream_lines(c, getlines(chunk), 1, <<>>)]

\* the lines of a server-sent event stream
StreamLines ==
    {"data: " \o BodyHi, "data: " \o BodyHo \o "\r", "data: " \o BodyNoText,
     "data: " \o BodyTruncated, "data: " \o BodyEmptyText, "data: [DONE]",
     "event: ping", ""}

RECURSIVE Joined(_)
Joined(lines) == IF lines = <<>> THEN "" ELSE Head(lines) \o "\n" \o Joined(Tail(lines))

Chunks == {Joined(lines) : lines \in UNION {[1..n -> StreamLines] : n \in 1..MaxLines}}

StreamSends == {"send_message_stream(text)", "send_message_stream()"}

ChatSchemas == {SchemaChat, SchemaBlocks, SchemaBasic}

\* a context and one chunk the transport is about to hand to the callback
InitStream ==
    \E doc \in ChatSchemas, chunk \in Chunks :
        /\ Holds(Constructed(doc, Config(TRUE, None, None)))
        /\ last = Pending("parse_stream_chunk", chunk)

parse_stream_chunk_call ==
    LET res == parse_stream_chunk(Self, last.arg)
    IN /\ alive
       /\ last.outcome = "pending" /\ last.op = "parse_stream_chunk"
       /\ last' = [op |-> "parse_stream_chunk", arg |-> last.arg, outcome |-> res.outcome,
                   pre |-> None, delivered |-> res.delivered]
       /\ UNCHANGED <<alive, fixed, mutable, calls, built, rt, factory>>

NextStream == parse_stream_chunk_call

SpecStream == InitStream /\ [][NextStream]_vars

\* a chat_api over a freshly constructed context
InitChat ==
    \E doc \in ChatSchemas, config \in Configs :
        /\ Holds(Constructed(doc, config))
        /\ last = [op |-> "chat_api", arg |-> Null, outcome |-> "ok", pre |-> None]

NextChat ==
    \/ add_user_message
    \/ add_assistant_message
    \/ set_parameter
    \/ send_message_text
    \/ send_message
    \/ send_message_stream_text
    \/ send_message_stream

SpecChat == InitChat /\ [][NextChat]_vars

\* ------------------------------------------------------------------ C22
ContextOnlySends == {"send_message()", "send_message_stream()"}

SendDone == alive /\ last.op \in StreamSends \cup ContextOnlySends \cup {"send_message(text)"}

NoUserMessageBefore ==
    \A i \in DOMAIN last.before : Index(last.before[i], "role") # Str("user")

RaisedBeforeTransport(kind) ==
    /\ last.outcome = kind
    /\ ~last.transport.has
    /\ m_messages = last.before

\* C22: a send_message_stream overload on a schema whose streaming feature
\* is false raises the streaming-not-supported error, and a context-only
\* send on a transcript without a user message raises the no-user-message
\* error; in both cases neither post nor post_stream is invoked and the
\* message list is the one the call found.
C22_PreconditionFailures ==
    SendDone =>
        /\ (last.op \in StreamSends /\ ~supports_streaming(m_schema))
              => RaisedBeforeTransport("streaming_not_supported_error")
        /\ (/\ last.op \in ContextOnlySends
            /\ NoUserMessageBefore
            /\ last.op \in StreamSends => supports_streaming(m_schema))
              => RaisedBeforeTransport("no_user_message_error")

C22_Witness ==
    /\ SendDone /\ last.op = "send_message_stream()"
    /\ supports_streaming(m_schema)
    /\ Len(last.before) = 2 /\ NoUserMessageBefore
    /\ last.outcome = "no_user_message_error"

\* ------------------------------------------------------------------ C23
SyncSends == {"send_message(text)", "send_message()"}

\* std::runtime_error and the classes derived from it in chat_api.h
RuntimeErrors ==
    {"runtime_error", "failed_api_response", "no_user_message_error",
     "streaming_not_supported_error"}

\* the text ends with the transport's error message
Carries(what, error_message) ==
    /\ Len(what) >= Len(error_message)
    /\ SubSeq(what, Len(what) - Len(error_message) + 1, Len(what)) = error_message

\* what the overload raises when a successful response body is not valid JSON
ParseErrorOf(op) ==
    IF op = "send_message(text)"
    THEN received_text(Self, Response(TRUE, "", BodyHtml)).outcome
    ELSE received(Self, Response(TRUE, "", BodyHtml)).outcome

\* C23: in send_message(text) and in send_message() a transport failure
\* surfaces as a runtime error that carries the transport's error message
\* and whose kind differs from the kind of the response-parse error raised
\* for a successful response whose body is not valid JSON.
C23_TransportErrorDistinct ==
    (SendDone /\ last.op \in SyncSends /\ last.transport.has /\ ~last.response.v.success) =>
        /\ last.outcome \in RuntimeErrors
        /\ Carries(last.what, last.response.v.error_message)
        /\ last.outcome # ParseErrorOf(last.op)

\* ------------------------------------------------------------------ C24
\* the texts the data lines before the first [DONE] line carry, each line
\* taken by itself: a payload that does not parse or yields no text is left
\* out, every other non-empty text is kept in line order
RECURSIVE TextsOfDataLines(_, _, _)
TextsOfDataLines(c, lines, i) ==
    IF i > Len(lines) THEN <<>>
    ELSE LET line == pop_carriage_return(lines[i])
             payload == SubSeq(line, Len(DATA_PREFIX) + 1, Len(line))
             parsed == json_parse(payload)
             text == extract_text_response(c, parsed.value)
         IN IF ~has_data_prefix(line) THEN TextsOfDataLines(c, lines, i + 1)
            ELSE IF payload = "[DONE]" THEN <<>>
            ELSE IF parsed.throws \/ text.outcome # "ok" \/ text.text = ""
            THEN TextsOfDataLines(c, lines, i + 1)
            ELSE <<text.text>> \o TextsOfDataLines(c, lines, i + 1)

\* C24: parse_stream_chunk never raises, skips a data line whose payload is
\* malformed JSON or yields no text, and hands to on_chunk, in line order,
\* the non-empty text of every other data line before the [DONE] line.
C24_LinesIndependent ==
    (alive /\ last.op = "parse_stream_chunk" /\ last.outcome # "pending") =>
        /\ last.outcome = "ok"
        /\ last.delivered = TextsOfDataLines(Self, getlines(last.arg), 1)

\* ------------------------------------------------------------------ C25
\* C25: the body either send_message_stream overload passes to post_stream
\* has stream = true, whatever parameters are set on the context.
C25_StreamTrueOnTransport ==
    (SendDone /\ last.op \in StreamSends /\ last.transport.has) =>
        /\ last.transport.v.method = "post_stream"
        /\ Index(last.transport.v.body, "stream") = Bool(TRUE)

\* ------------------------------------------------- general_context: images
MAX_IMAGE_SIZE == 10485760

\* image content templates: the data in a base64 source, or in a data URL
ImageFormatSource ==
    Obj([type |-> Str("image"),
         source |-> Obj([type |-> Str("base64"), media_type |-> Str("<MEDIA_TYPE>"),
                         data |-> Str("<BASE64_DATA>")])])

ImageFormatUrl ==
    Obj([type |-> Str("image_url"), image_url |-> Obj([url |-> Str("<IMAGE_URL>")])])

\* block content, multimodal supported, image content type declared
SchemaVision(image_format) ==
    Put(Put(SchemaBlocks, "multimodal", Obj([supported |-> Bool(TRUE)])),
        "message_format",
        Put(MessageFormatBlocks, "content_types",
            Obj([text |-> Obj([type |-> Str("text")]), image |-> image_format])))

supports_multimodal(schema) == FlagOf(schema, "multimodal", "supported")

\* m_image_content_format as cache_schema_elements() fills it (null when absent)
image_content_format_of(schema) ==
    Index(Index(Index(schema, "message_format"), "content_types"), "image")

\* the image files on disk: size in bytes and content (for the two large
\* files only the first bytes of the content are written down)
ImageFiles ==
    [path \in {"pic.png", "max.png", "big.png", "/tmp/img", "/tmp/big"} |->
        CASE path = "pic.png" -> [size |-> 3, bytes |-> <<77, 97, 110>>]
          [] path = "max.png" -> [size |-> MAX_IMAGE_SIZE, bytes |-> <<137, 80>>]
          [] path = "big.png" -> [size |-> MAX_IMAGE_SIZE + 1, bytes |-> <<137, 80>>]
          [] path = "/tmp/img" -> [size |-> 1, bytes |-> <<255>>]
          [] OTHER -> [size |-> MAX_IMAGE_SIZE + 1, bytes |-> <<137>>]]

encoding_table == "ABCDEFGHIJKLMNOPQRSTUVWXYZabcdefghijklmnopqrstuvwxyz0123456789+/"

\* response_utils::base64_encode(data, len)
RECURSIVE base64_encode(_)
base64_encode(data) ==
    IF data = <<>> THEN ""
    ELSE LET bytes_left == Len(data)
             octet_a == data[1]
             octet_b == IF bytes_left > 1 THEN data[2] ELSE 0
             octet_c == IF bytes_left > 2 THEN data[3] ELSE 0
             triple == octet_a * 65536 + octet_b * 256 + octet_c
             at(k) == SubSeq(encoding_table, k + 1, k + 1)
         IN at((triple \div 262144) % 64) \o at((triple \div 4096) % 64)
            \o (IF bytes_left > 1 THEN at((triple \div 64) % 64) ELSE "=")
            \o (IF bytes_left > 2 THEN at(triple % 64) ELSE "=")
            \o base64_encode(SubSeq(data, 4, Len(data)))

\* a size check that also refuses a file of exactly MAX_IMAGE_SIZE bytes
too_large_at_limit(file_size) == file_size >= MAX_IMAGE_SIZE

\* file_size > MAX_IMAGE_SIZE
too_large(file_size) == file_size > MAX_IMAGE_SIZE

\* encode_image_to_base64(): the encoded content, or a runtime_error
encode_image_to_base64(image_path) ==
    IF image_path \notin DOMAIN ImageFiles THEN [throws |-> TRUE, value |-> ""]
    ELSE IF too_large(ImageFiles[image_path].size) THEN [throws |-> TRUE, value |-> ""]
    ELSE [throws |-> FALSE, value |-> base64_encode(ImageFiles[image_path].bytes)]

starts_with(str, prefix) ==
    Len(str) >= Len(prefix) /\ SubSeq(str, 1, Len(prefix)) = prefix

base64_chars == encoding_table \o "="

\* std::isspace in the C locale
isspace(ch) == ch \in {" ", "\t", "\n", "\r", "\f"}

\* the loop of is_base64_encoded() from character i on, and the final test
RECURSIVE base64_scan(_, _, _, _)
base64_scan(data, i, padding, data_len) ==
    IF i > Len(data) THEN data_len % 4 = 0 /\ padding # 1
    ELSE LET ch == SubSeq(data, i, i)
         IN IF isspace(ch) THEN base64_scan(data, i + 1, padding, data_len)
            ELSE IF Find(base64_chars, ch, 1) = 0 THEN FALSE
            ELSE IF ch = "=" /\ padding + 1 > 2 THEN FALSE
            ELSE base64_scan(data, i + 1, IF ch = "=" THEN padding + 1 ELSE padding,
                             data_len + 1)

is_base64_encoded(data) ==
    IF data = "" THEN FALSE
    ELSE IF starts_with(data, "data:") /\ Find(data, ";base64,", 1) # 0 THEN TRUE
    ELSE base64_scan(data, 1, 0, 0)

\* apply_template_values(): the three placeholders replaced in every string
\* leaf (no replacement value contains a placeholder)
RECURSIVE apply_template_values(_, _)
apply_template_values(j, replacements) ==
    IF is_string(j)
    THEN Str(ReplaceFrom(ReplaceFrom(ReplaceFrom(j.s, "<IMAGE_URL>",
                                                 replacements.image_url, 1),
                                     "<BASE64_DATA>", replacements.base64_data, 1),
                         "<MEDIA_TYPE>", replacements.media_type, 1))
    ELSE IF is_object(j)
    THEN Obj([k \in DOMAIN j.o |-> apply_template_values(j.o[k], replacements)])
    ELSE IF is_array(j)
    THEN Arr([i \in DOMAIN j.a |-> apply_template_values(j.a[i], replacements)])
    ELSE j

\* create_image_content(): the image block, or the runtime_error of
\* encode_image_to_base64()
create_image_content(c, media_type, data) ==
    LET comma_pos == Find(data, ",", 1)
        encoded == encode_image_to_base64(data)
        base64_data ==
            IF is_base64_encoded(data)
            THEN (IF starts_with(data, "data:") /\ comma_pos # 0
                  THEN SubSeq(data, comma_pos + 1, Len(data))
                  ELSE data)
            ELSE encoded.value
    IN [throws |-> ~is_base64_encoded(data) /\ encoded.throws,
        content |-> apply_template_values(
                        image_content_format_of(c.m_schema),
                        [image_url |-> "data:" \o media_type \o ";base64," \o base64_data,
                         base64_data |-> base64_data,
                         media_type |-> media_type])]

\* create_message() with media_type and media_data given: the message, or
\* the exception it throws
create_message_with_media(c, role, content, media_type, media_data) ==
    LET structure_key == role \o "_structure"
        format == At(c.m_schema, "message_format")
        image == create_image_content(c, media_type, media_data)
        content_array == Arr(<<create_text_content(c, content), image.content>>)
        plain == create_message(c, role, content)
        boxed == Contains(plain, "content") /\ is_array(At(plain, "content"))
    IN IF Contains(c.m_schema, "message_format") /\ Contains(format, structure_key)
       THEN IF boxed
            THEN [throws |-> IF image.throws THEN "runtime_error" ELSE "none",
                  message |-> Put(plain, "content", content_array)]
            ELSE [throws |-> "none", message |-> plain]
       ELSE IF boxed
            THEN IF ~supports_multimodal(c.m_schema) /\ c.m_config.enable_validation
                 THEN [throws |-> "validation_exception", message |-> plain]
                 ELSE [throws |-> IF image.throws THEN "runtime_error" ELSE "none",
                       message |-> Put(plain, "content", content_array)]
            ELSE [throws |-> "none", message |-> plain]

\* add_message(role, content, media_type, media_data): create, validate, append
AddMessageMedia(op, role, content, media_type, media_data) ==
    LET made == create_message_with_media(Self, role, content, media_type, media_data)
        arg == <<role, content, media_type, media_data>>
    IN /\ alive
       /\ IF made.throws # "none" THEN Throws(op, arg, made.throws)
          ELSE IF ~add_message_accepts(Self, made.message)
          THEN Throws(op, arg, "validation_exception")
          ELSE /\ m_messages' = Append(m_messages, made.message)
               /\ Returns(op, arg)
               /\ rt' = Idle
               /\ UNCHANGED <<m_headers, m_model_name, m_system_message, m_parameters,
                              m_api_key>>

MediaTypes == {"image/png"}

\* media_data arguments: data URIs, bare base64, paths with and without a
\* file behind them
MediaData ==
    {"data:image/png;base64,TWFu", "data:image/png;base64", "TWFu", "TQ==", "TWF=",
     "pic.png", "max.png", "big.png", "gone.png", "/tmp/img", "/tmp/big", ""}

ImageSchemas ==
    {SchemaVision(ImageFormatSource), SchemaVision(ImageFormatUrl), SchemaBlocks, SchemaChat}

\* a fresh context and one add_user_message / add_message call with image data
InitImage ==
    \E doc \in ImageSchemas, config \in Configs, media_type \in MediaTypes,
       media_data \in MediaData, op \in {"add_user_message", "add_message"} :
        /\ Holds(Constructed(doc, config))
        /\ last = Pending(op, <<"user", "X", media_type, media_data>>)

add_user_message_media ==
    /\ last.outcome = "pending" /\ last.op = "add_user_message"
    /\ AddMessageMedia("add_user_message", "user", last.arg[2], last.arg[3], last.arg[4])

add_message_media ==
    /\ last.outcome = "pending" /\ last.op = "add_message"
    /\ AddMessageMedia("add_message", last.arg[1], last.arg[2], last.arg[3], last.arg[4])

NextImage ==
    \/ add_user_message_media
    \/ add_message_media

SpecImage == InitImage /\ [][NextImage]_vars

\* ------------------------------------------------------------------ C26
\* the call is over, on a multimodal schema whose messages carry content blocks
ImageAdded ==
    /\ alive /\ last.op \in {"add_user_message", "add_message"}
    /\ last.outcome # "pending"
    /\ supports_multimodal(m_schema)
    /\ image_content_format_of(m_schema) # Null

ImageData == last.arg[4]

DataUri(d) ==
    /\ Len(d) >= 5 /\ SubSeq(d, 1, 5) = "data:"
    /\ \E i \in 1..Len(d) : i + 7 <= Len(d) /\ SubSeq(d, i, i + 7) = ";base64,"

\* the part of a data URI after its first comma
Payload(d) ==
    LET i == CHOOSE k \in 1..Len(d) :
                SubSeq(d, k, k) = "," /\ \A m \in 1..(k - 1) : SubSeq(d, m, m) # ","
    IN SubSeq(d, i + 1, Len(d))

\* the base64 data the image block of the appended message carries
BlockData ==
    LET block == At(m_messages[Len(m_messages)], "content").a[2]
    IN IF Contains(block, "source") THEN At(At(block, "source"), "data").s
       ELSE LET url == At(At(block, "image_url"), "url").s
            IN SubSeq(url, Len("data:" \o last.arg[3] \o ";base64,") + 1, Len(url))

Appended(data) ==
    /\ last.outcome = "ok" /\ Len(m_messages) = 1
    /\ BlockData = data

Refused == last.outcome = "runtime_error" /\ m_messages = <<>>

\* only base64 alphabet characters and whitespace, the other characters a
\* multiple of four in number, no or two `=` among them
LooksBase64(d) ==
    LET counted == {i \in 1..Len(d) : SubSeq(d, i, i) \notin {" ", "\t", "\n", "\r", "\f"}}
        alphabet == {SubSeq(base64_chars, k, k) : k \in 1..Len(base64_chars)}
    IN /\ d # ""
       /\ \A i \in counted : SubSeq(d, i, i) \in alphabet
       /\ Cardinality(counted) % 4 = 0
       /\ Cardinality({i \in counted : SubSeq(d, i, i) = "="}) \in {0, 2}

\* C26 as stated: image data that starts with `data:` and contains
\* `;base64,` is taken as already encoded; a path to an existing file of at
\* most 10 MB is read and base64-encoded; a path to a larger file raises a
\* runtime error and no message is appended.
C26_ImageClassification ==
    ImageAdded =>
        /\ DataUri(ImageData) => Appended(Payload(ImageData))
        /\ (ImageData \in DOMAIN ImageFiles /\ ImageFiles[ImageData].size <= MAX_IMAGE_SIZE)
              => Appended(base64_encode(ImageFiles[ImageData].bytes))
        /\ (ImageData \in DOMAIN ImageFiles /\ ImageFiles[ImageData].size > MAX_IMAGE_SIZE)
              => Refused

\* C26 amended: image data that is a data URI or that looks like base64 is
\* taken as already encoded, also when it names a file; any other string is
\* a path: an existing file of at most 10 MB is read and base64-encoded, and
\* a larger or missing file raises a runtime error and no message is appended.
C26_ImageClassificationBase64First ==
    ImageAdded =>
        IF DataUri(ImageData) THEN Appended(Payload(ImageData))
        ELSE IF LooksBase64(ImageData) THEN Appended(ImageData)
        ELSE IF ImageData \in DOMAIN ImageFiles /\ ImageFiles[ImageData].size <= MAX_IMAGE_SIZE
        THEN Appended(base64_encode(ImageFiles[ImageData].bytes))
        ELSE Refused

C26_Witness ==
    /\ ImageAdded /\ ImageData = "max.png"
    /\ Appended("iVA=")

\* ------------------------------------------------------- headers and API keys
\* the placeholder twice in one required header, an optional header that is null
SchemaTwice ==
    Put(SchemaChat, "headers",
        Obj([required |-> Obj([Authorization |-> Str("<K>:<K>"), Accept |-> Str("json")]),
             optional |-> Obj([Org |-> Null, Beta |-> Str("b1")])]))

HeaderSchemas == {SchemaChat, SchemaBlocks, SchemaBasic, SchemaTwice}

HeaderKeys == {"", "k1", "k2", "sk-3"}

InitHeaders ==
    \E doc \in HeaderSchemas, config \in Configs :
        /\ Holds(Constructed(doc, config))
        /\ last = [op |-> "general_context(json)", arg |-> [kind |-> "json", doc |-> doc],
                   outcome |-> "ok", pre |-> None]

set_api_key_call == \E api_key \in HeaderKeys : SetApiKey(api_key)

NextHeaders == set_api_key_call

SpecHeaders == InitHeaders /\ [][NextHeaders]_vars

\* ------------------------------------------------------------------ C27
\* str with every occurrence of placeholder, read from the left, replaced by key
RECURSIVE Substituted(_, _, _)
Substituted(str, placeholder, key) ==
    IF str = "" THEN ""
    ELSE IF Len(str) >= Len(placeholder) /\ SubSeq(str, 1, Len(placeholder)) = placeholder
    THEN key \o Substituted(SubSeq(str, Len(placeholder) + 1, Len(str)), placeholder, key)
    ELSE SubSeq(str, 1, 1) \o Substituted(SubSeq(str, 2, Len(str)), placeholder, key)

Occurs(part, str) ==
    \E i \in 1..Len(str) : i + Len(part) - 1 <= Len(str) /\ SubSeq(str, i, i + Len(part) - 1) = part

RequiredHeaders == IF Contains(m_schema, "headers") /\ Contains(At(m_schema, "headers"), "required")
                   THEN At(At(m_schema, "headers"), "required").o ELSE <<>>

OptionalHeaders == IF Contains(m_schema, "headers") /\ Contains(At(m_schema, "headers"), "optional")
                   THEN At(At(m_schema, "headers"), "optional").o ELSE <<>>

NonEmptyOptional ==
    {k \in DOMAIN OptionalHeaders : is_string(OptionalHeaders[k]) /\ OptionalHeaders[k].s # ""}

KeyPlaceholder == At(At(m_schema, "authentication"), "key_placeholder").s

\* C27: after construction and any sequence of set_api_key calls the header
\* map is the schema's required headers with every occurrence of the key
\* placeholder replaced by the API key set last, together with the optional
\* headers whose value is a non-empty string; no other key occurs in it.
C27_HeadersFollowKey ==
    alive =>
        /\ DOMAIN m_headers = DOMAIN RequiredHeaders \cup NonEmptyOptional
        /\ \A k \in NonEmptyOptional : m_headers[k] = OptionalHeaders[k].s
        /\ \A k \in DOMAIN RequiredHeaders \ NonEmptyOptional :
              m_headers[k] = IF Contains(m_schema, "authentication")
                             THEN Substituted(RequiredHeaders[k].s, KeyPlaceholder, m_api_key)
                             ELSE RequiredHeaders[k].s
        /\ \A k \in DOMAIN m_headers : \A earlier \in HeaderKeys \ {"", m_api_key} :
              ~Occurs(earlier, m_headers[k])
        /\ last.op = "set_api_key" =>
              m_api_key = IF last.outcome = "ok" THEN last.arg ELSE last.pre.v.api_key

C27_Witness ==
    /\ alive /\ m_schema = SchemaTwice
    /\ calls = 2 /\ last.op = "set_api_key" /\ last.outcome = "ok" /\ last.arg = "k2"
    /\ m_headers = [Authorization |-> "k2:k2", Accept |-> "json", Beta |-> "b1"]

\* ------------------------------------------- two factories, provider_context
\* a schema_registry: its schema directory and its registered paths
Registry(directory, paths) == [m_schema_directory |-> directory, m_provider_paths |-> paths]

\* m_registry of the two factories
RegistryOf(which) ==
    IF which = "factory" THEN Registry(SchemaDirectory, RegisteredPaths)
    ELSE Registry("other_schemas", <<>>)

\* schema_registry::resolve_schema_path() of a given registry
registry_resolve_schema_path(registry, provider_name) ==
    IF provider_name \in DOMAIN registry.m_provider_paths
    THEN registry.m_provider_paths[provider_name]
    ELSE registry.m_schema_directory \o "/" \o provider_name \o ".json"

Factories == {"factory", "other_factory"}

\* the cache and the counters of one of the two factories
MembersOf(which) ==
    IF which = "factory"
    THEN [m_schema_cache |-> m_schema_cache, m_cache_hits |-> m_cache_hits,
          m_cache_misses |-> m_cache_misses]
    ELSE other_factory

\* create_context() run to its end by one thread: what it returns or throws,
\* the schema the context is built from, and the factory's members afterwards
create_context_of(members, registry, provider_name) ==
    LET schema_path == registry_resolve_schema_path(registry, provider_name)
        cached_schema == get_cached_schema(members.m_schema_cache, schema_path,
                                           members.m_cache_hits, members.m_cache_misses)
        counted == [members EXCEPT !.m_cache_hits = cached_schema.hits,
                                   !.m_cache_misses = cached_schema.misses]
    IN IF ~exists(schema_path)
       THEN [outcome |-> "schema_exception", doc |-> Null, members |-> members]
       ELSE IF cached_schema.found
       THEN [outcome |-> construct_outcome(members.m_schema_cache[schema_path]),
             doc |-> members.m_schema_cache[schema_path], members |-> counted]
       ELSE IF FileSystem[schema_path].kind # "json"
       THEN [outcome |-> "schema_exception", doc |-> Null, members |-> counted]
       ELSE [outcome |-> construct_outcome(FileSystem[schema_path].doc),
             doc |-> FileSystem[schema_path].doc,
             members |-> [counted EXCEPT !.m_schema_cache =
                             cache_insert(@, schema_path, FileSystem[schema_path].doc)]]

\* the members of the factory `which` become `members`
Assign(which, members) ==
    IF which = "factory"
    THEN /\ m_schema_cache' = members.m_schema_cache
         /\ m_cache_hits' = members.m_cache_hits
         /\ m_cache_misses' = members.m_cache_misses
         /\ UNCHANGED other_factory
    ELSE /\ other_factory' = members
         /\ UNCHANGED <<m_schema_cache, m_cache_hits, m_cache_misses>>

\* get_thread_local_context(provider_name) called on the factory `which`:
\* tl_contexts is a thread_local of the member function, one map per
\* thread whatever factory the call is made on
GetThreadLocalContext(which, t, provider_name) ==
    LET mine == Slot(tl_contexts[tl_owner(t)], provider_name)
        made == create_context_of(MembersOf(which), RegistryOf(which), provider_name)
        id == fhist.instances + 1
        context_ptr ==
            IF mine[provider_name].has THEN mine[provider_name]
            ELSE IF made.outcome = "ok"
            THEN Some([id |-> id, factory |-> which,
                       ctx |-> Constructed(made.doc, Config(TRUE, None, None))])
            ELSE None
    IN /\ BeginCall(t)
       /\ tl_contexts' = [tl_contexts EXCEPT
                            ![tl_owner(t)] = [mine EXCEPT ![provider_name] = context_ptr]]
       /\ IF mine[provider_name].has
          THEN UNCHANGED <<m_schema_cache, m_cache_hits, m_cache_misses, other_factory>>
          ELSE Assign(which, made.members)
       /\ fhist' = [fhist EXCEPT
                      !.instances = IF ~mine[provider_name].has /\ made.outcome = "ok"
                                    THEN id ELSE @,
                      !.returned = IF context_ptr.has
                                   THEN @ \cup {<<t, provider_name, context_ptr.v.id>>}
                                   ELSE @]
       /\ flast' = [op |-> "get_thread_local_context", on |-> which, thread |-> t,
                    provider |-> provider_name,
                    outcome |-> IF context_ptr.has THEN "ok" ELSE made.outcome,
                    returned |-> context_ptr]
       /\ UNCHANGED <<pc, tl_cache, context>>

FactoryProviders == {"provider1", "provider2", "nonexistent_provider"}

factory_get_thread_local_context ==
    \E t \in Threads, p \in FactoryProviders : GetThreadLocalContext("factory", t, p)

other_factory_get_thread_local_context ==
    \E t \in Threads, p \in FactoryProviders : GetThreadLocalContext("other_factory", t, p)

NextFactories ==
    \/ factory_get_thread_local_context
    \/ other_factory_get_thread_local_context

SpecFactories == Init /\ [][NextFactories]_vars

\* ------------------------------------------------------------------ C29
\* C29: a context get_thread_local_context returns on a factory was created
\* through that factory, so it is built from the schema that the factory's
\* own registry resolves for the provider name.
C29_ContextsOfOwnFactory ==
    (flast.op = "get_thread_local_context" /\ flast.outcome = "ok") =>
        /\ flast.returned.v.factory = flast.on
        /\ exists(registry_resolve_schema_path(RegistryOf(flast.on), flast.provider))
        /\ flast.returned.v.ctx.m_schema =
              FileSystem[registry_resolve_schema_path(RegistryOf(flast.on),
                                                      flast.provider)].doc

\* ------------------------------------------------------- provider_context
\* the provider_context objects of the program, all over `factory`
ProviderContexts ==
    [claude_ctx |-> "provider1", other_ctx |-> "provider2",
     missing_ctx |-> "nonexistent_provider"]

\* provider_context::get() on thread t: the thread_cache afterwards, what the
\* call returns or throws, and the factory's members afterwards. The
\* thread_cache is a thread_local of the member function: one per thread for
\* all provider_context objects.
provider_context_get(t, object) ==
    LET m_provider_name == ProviderContexts[object]
        cache == tl_cache[t]
        made == create_context_of(MembersOf("factory"), RegistryOf("factory"),
                                  m_provider_name)
        id == fhist.instances + 1
    IN IF cache.context.has /\ cache.provider_name = m_provider_name
       THEN [outcome |-> "ok", cache |-> cache, members |-> MembersOf("factory"),
             instances |-> fhist.instances]
       ELSE IF made.outcome = "ok"
       THEN [outcome |-> "ok",
             cache |-> [provider_name |-> m_provider_name,
                        context |-> Some([id |-> id,
                                          ctx |-> Constructed(made.doc,
                                                              Config(TRUE, None, None))])],
             members |-> made.members, instances |-> id]
       ELSE [outcome |-> made.outcome,
             cache |-> [provider_name |-> m_provider_name, context |-> cache.context],
             members |-> made.members, instances |-> fhist.instances]

\* what the call does to the context get() returned
AfterCall(op, c) ==
    IF op = "add_user_message"
    THEN [c EXCEPT !.m_messages = Append(@, create_message(c, "user", "X"))]
    ELSE IF op = "provider_context::reset"
    THEN [c EXCEPT !.m_messages = <<>>, !.m_system_message = None,
                   !.m_parameters = <<>>, !.m_model_name = reset_model_name(c)]
    ELSE c

\* a call made through a provider_context object is over
ProviderCall(op, t, object, added) ==
    LET got == provider_context_get(t, object)
    IN /\ BeginCall(t)
       /\ Assign("factory", got.members)
       /\ tl_cache' = [tl_cache EXCEPT ![t] =
                          IF got.outcome = "ok"
                          THEN [got.cache EXCEPT !.context.v.ctx = AfterCall(op, @)]
                          ELSE got.cache]
       /\ fhist' = [fhist EXCEPT
                      !.instances = got.instances,
                      !.returned = IF got.outcome = "ok"
                                   THEN @ \cup {<<t, object, got.cache.context.v.id>>}
                                   ELSE @,
                      !.added = IF got.outcome = "ok"
                                THEN [x \in DOMAIN @ \cup {<<t, object>>} |->
                                         IF x = <<t, object>> THEN added ELSE @[x]]
                                ELSE @]
       /\ flast' = [op |-> op, thread |-> t, object |-> object, outcome |-> got.outcome,
                    returned |-> IF got.outcome = "ok" THEN got.cache.context ELSE None]
       /\ UNCHANGED <<tl_contexts, pc, context>>

\* the messages added through the object's context since its reset()
AddedThrough(t, object) ==
    IF <<t, object>> \in DOMAIN fhist.added THEN fhist.added[<<t, object>>] ELSE 0

\* provider_context::get()
provider_get ==
    \E t \in Threads, object \in DOMAIN ProviderContexts :
        ProviderCall("provider_context::get", t, object, AddedThrough(t, object))

\* get().add_user_message(text)
provider_add_user_message ==
    \E t \in Threads, object \in DOMAIN ProviderContexts :
        ProviderCall("add_user_message", t, object, AddedThrough(t, object) + 1)

\* provider_context::reset(): get().reset()
provider_reset ==
    \E t \in Threads, object \in DOMAIN ProviderContexts :
        ProviderCall("provider_context::reset", t, object, 0)

NextProvider ==
    \/ provider_get
    \/ provider_add_user_message
    \/ provider_reset

SpecProvider == Init /\ [][NextProvider]_vars

\* ------------------------------------------------------------------ C28
\* C28: on one thread every get() of a provider_context after the first
\* returns the instance the first call created, and that context holds the
\* messages added through it since the last reset().
C28_SameInstance ==
    (flast.op = "provider_context::get" /\ flast.outcome = "ok") =>
        /\ Cardinality(InstancesOf(flast.thread, flast.object)) = 1
        /\ Len(flast.returned.v.ctx.m_messages) = AddedThrough(flast.thread, flast.object)

\* ------------------------------------------------ schema_registry on a disk
WorkingDirectory == "/w"

\* std::filesystem::absolute(path)
absolute(path) ==
    IF Len(path) >= 1 /\ SubSeq(path, 1, 1) = "/" THEN path
    ELSE WorkingDirectory \o "/" \o path

\* position of the last ch in str, 0 when there is none
LastFind(str, ch) ==
    LET hits == {i \in 1..Len(str) : SubSeq(str, i, i) = ch}
    IN IF hits = {} THEN 0 ELSE CHOOSE i \in hits : \A j \in hits : j <= i

\* path::filename(), path::parent_path(), path::extension(), path::stem()
filename(path) == SubSeq(path, LastFind(path, "/") + 1, Len(path))

parent_path(path) == SubSeq(path, 1, LastFind(path, "/") - 1)

extension(path) ==
    LET name == filename(path)
        dot == LastFind(name, ".")
    IN IF dot <= 1 THEN "" ELSE SubSeq(name, dot, Len(name))

stem(path) ==
    LET name == filename(path)
    IN SubSeq(name, 1, Len(name) - Len(extension(path)))

\* std::filesystem::exists(path) on a disk: absolute path -> kind of entry
exists_on(disk, path) == absolute(path) \in DOMAIN disk

\* std::filesystem::directory_iterator(directory): the entries in it
directory_iterator(disk, directory) ==
    {entry \in DOMAIN disk : parent_path(entry) = absolute(directory)}

\* a listing made from the schema directory alone
get_available_providers_of_directory(registry, disk) ==
    IF exists_on(disk, registry.m_schema_directory)
    THEN {stem(entry) : entry \in
             {e \in directory_iterator(disk, registry.m_schema_directory) :
                 disk[e] = "file" /\ extension(e) = ".json"}}
    ELSE {}

\* schema_registry::get_available_providers(), as a set
get_available_providers(registry, disk) ==
    {name \in DOMAIN registry.m_provider_paths :
        exists_on(disk, registry.m_provider_paths[name])}
    \cup (IF exists_on(disk, registry.m_schema_directory)
          THEN {stem(entry) : entry \in
                   {e \in directory_iterator(disk, registry.m_schema_directory) :
                       disk[e] = "file" /\ extension(e) = ".json"}}
          ELSE {})

\* schema_registry::is_provider_available() for a non-empty name
is_provider_available(registry, disk, provider_name) ==
    exists_on(disk, absolute(registry_resolve_schema_path(registry, provider_name)))

\* what can be on the disk: path -> the kinds of entry it can be
DiskEntries ==
    [path \in {"/w/schemas/p.json", "/w/schemas/q.json", "/w/schemas/notes.txt",
               "/w/schemas/r", "/w/custom/p3.json"} |->
        IF path = "/w/schemas/p.json" THEN {"file", "directory"} ELSE {"file"}]

\* the disks: any part of the entries, under directories that exist with them
Disks ==
    {[path \in entries \cup {parent_path(e) : e \in entries} \cup kept |->
         IF path \in entries THEN kinds[path] ELSE "directory"] :
       entries \in SUBSET DOMAIN DiskEntries,
       kinds \in [DOMAIN DiskEntries -> {"file", "directory"}],
       kept \in SUBSET {"/w/schemas"}}

RealDisks == {disk \in Disks : \A path \in DOMAIN disk \cap DOMAIN DiskEntries :
                                  disk[path] \in DiskEntries[path]}

\* registries over the directory `schemas`, with and without overrides
Registries ==
    {Registry("schemas", paths) :
        paths \in {<<>>, [p |-> "custom/p3.json"], [q |-> "/w/custom/p3.json"],
                   [p |-> "custom/p3.json", r |-> "custom/r.json"]}}

ProviderNames == {"p", "q", "r", "notes"}

\* a registry, a disk and a provider name; neither operation has been called
InitRegistry ==
    /\ FreshFactory
    /\ alive = FALSE
    /\ m_schema = Null /\ m_request_template = Null /\ m_config = Config(TRUE, None, None)
    /\ m_valid_roles = {} /\ m_message_structure = Null /\ m_text_content_format = Null
    /\ m_headers = <<>> /\ m_model_name = "" /\ m_system_message = None
    /\ m_messages = <<>> /\ m_parameters = <<>> /\ m_api_key = ""
    /\ calls = 0 /\ built = NoBuilds /\ rt = Idle
    /\ \E registry \in Registries, disk \in RealDisks, name \in ProviderNames :
          last = [op |-> "schema_registry", outcome |-> "pending", pre |-> None,
                  arg |-> [registry |-> registry, disk |-> disk, name |-> name],
                  providers |-> None, available |-> None]

get_available_providers_call ==
    /\ last.op = "schema_registry" /\ ~last.providers.has
    /\ last' = [last EXCEPT
                  !.providers = Some(get_available_providers(last.arg.registry, last.arg.disk)),
                  !.outcome = IF last.available.has THEN "ok" ELSE "pending"]
    /\ UNCHANGED <<alive, fixed, mutable, calls, built, rt, factory>>

is_provider_available_call ==
    /\ last.op = "schema_registry" /\ ~last.available.has
    /\ last' = [last EXCEPT
                  !.available = Some(is_provider_available(last.arg.registry, last.arg.disk,
                                                           last.arg.name)),
                  !.outcome = IF last.providers.has THEN "ok" ELSE "pending"]
    /\ UNCHANGED <<alive, fixed, mutable, calls, built, rt, factory>>

NextRegistry ==
    \/ get_available_providers_call
    \/ is_provider_available_call

SpecRegistry == InitRegistry /\ [][NextRegistry]_vars

\* ------------------------------------------------------------------ C30
BothAsked == last.op = "schema_registry" /\ last.outcome = "ok"

Listed == last.arg.name \in last.providers.v

\* the provider has a registered path and nothing is there
OverrideMissing ==
    /\ last.arg.name \in DOMAIN last.arg.registry.m_provider_paths
    /\ \A path \in DOMAIN last.arg.disk :
          path # last.arg.registry.m_provider_paths[last.arg.name]
          /\ path # "/w/" \o last.arg.registry.m_provider_paths[last.arg.name]

\* what <schema directory>/<name>.json is on the disk: "file", "directory", "none"
InDirectory ==
    LET path == "/w/" \o last.arg.registry.m_schema_directory \o "/" \o last.arg.name
                  \o ".json"
    IN IF path \in DOMAIN last.arg.disk THEN last.arg.disk[path] ELSE "none"

====
